---------------------------- MODULE Spec2Model ----------------------------
(***************************************************************************)
(* A model of the Structure module of the Bacterial and Archaeal Genome   *)
(* Analyser (src/Structure.py): the Checker object (per-position ratios,   *)
(* windowed mean, threshold scan with hysteresis, gap-bridging extension)  *)
(* and the checkStructure batch driver.                                    *)
(*                                                                         *)
(* Python floats are modelled as exact rationals <<n, d>> with d > 0,      *)
(* compared and added by cross-multiplication; integer "/" of Python 2 is  *)
(* \div on the non-negative operands the code gives it.                    *)
(***************************************************************************)
EXTENDS Integers, Sequences, FiniteSets, TLC

VARIABLES
    op,               \* the Checker method (or driver step) that ran last
    raised,           \* the exception that method raised, or "none"
    genome_length,    \* Checker.genome_length
    depth_total,      \* Checker.depth_total
    depth_proper,     \* Checker.depth_proper
    ratios,           \* Checker.ratios
    smoothed_ratios,  \* Checker.smoothed_ratios
    mean_insert_size, \* Checker.mean_insert_size
    suspect_regions,  \* Checker.suspect_regions: filter name -> list of regions
    call,             \* arguments and intermediate lists of the last call
    ncalls,           \* number of method calls made on the Checker so far
    batch,            \* state of one checkStructure call over several samples
    cache             \* one file's cache files and the processes using them

vars == <<op, raised, genome_length, depth_total, depth_proper, ratios,
          smoothed_ratios, mean_insert_size, suspect_regions, call, ncalls,
          batch, cache>>

\* The attributes of the one Checker the method-level specifications follow.
objectVars == <<op, raised, genome_length, depth_total, depth_proper, ratios,
                smoothed_ratios, mean_insert_size, suspect_regions, call, ncalls>>

-----------------------------------------------------------------------------
(* Bounds of the model.                                                    *)

MaxLen == 3        \* longest depth array drawn for getProperRatios
MaxDepth == 2      \* largest read count at a position
MaxSeries == 5     \* longest ratio series drawn for getSmoothedRatios
MaxWindow == 4     \* widest smoothing window
MaxStep == 2       \* largest smoothing step
MaxRes == 3        \* largest resolution
MaxSig == 5        \* longest signal given to scan_threshold
MaxOffset == 2     \* largest scan offset
MaxScanRes == 2    \* largest scan resolution
MaxBuffer == 2     \* largest buffer distance
MaxGenome == 8     \* longest genome
ExtLen == 7        \* length of the ratio series drawn for extend_regions
MaxGap == 5        \* widest gap between the two base regions drawn
MaxInsert == 3     \* largest (rounded) mean insert size drawn
MaxCalls == 2      \* longest sequence of calls made on one Checker
MaxBams == 2       \* most alignment files given to one checkStructure call

-----------------------------------------------------------------------------
(* Rationals standing for Python floats.                                   *)

Rat(n) == <<n, 1>>
RNum(x) == x[1]
RDen(x) == x[2]
REq(x, y) == RNum(x) * RDen(y) = RNum(y) * RDen(x)
RLt(x, y) == RNum(x) * RDen(y) < RNum(y) * RDen(x)
RLe(x, y) == RNum(x) * RDen(y) <= RNum(y) * RDen(x)
RAdd(x, y) == <<RNum(x) * RDen(y) + RNum(y) * RDen(x), RDen(x) * RDen(y)>>
RMulInt(x, k) == <<RNum(x) * k, RDen(x)>>
RDivInt(x, k) == <<RNum(x), RDen(x) * k>>

NO_DATA == Rat(-1)
Zero == Rat(0)

RECURSIVE RSum(_)
RSum(s) == IF s = <<>> THEN Zero ELSE RAdd(Head(s), RSum(Tail(s)))

\* Python's s[a:b] for 0 <= a, 0 <= b (0-based, end exclusive, clamped).
Slice(s, a, b) ==
    LET hi == IF b < Len(s) THEN b ELSE Len(s)
    IN  IF a >= hi THEN <<>> ELSE [k \in 1..(hi - a) |-> s[a + k]]

\* Python's list comprehension [x for x in s if P(x)].
Filter(s, P(_)) == SelectSeq(s, P)

Min(a, b) == IF a < b THEN a ELSE b

\* All sequences over S of length lo..hi.
SeqsOf(S, lo, hi) == UNION {[1..n -> S] : n \in lo..hi}

-----------------------------------------------------------------------------
(* Checker.getProperRatios                                                 *)

\* The mutant: "total > proper > 0" in place of "total >= proper > 0".
ProperRatioStrict(total, proper) ==
    IF total > proper /\ proper > 0 THEN <<total - proper, proper>>
    ELSE IF total > proper /\ proper = 0 THEN Rat(total)
    ELSE NO_DATA

\* One iteration of the loop body: the if / elif / else on (total, proper).
ProperRatio(total, proper) ==
    IF total >= proper /\ proper > 0 THEN <<total - proper, proper>>
    ELSE IF total > proper /\ proper = 0 THEN Rat(total)
    ELSE NO_DATA

\* izip stops at the shorter array; one ratio is appended per pair.
ProperRatios(totals, propers) ==
    [k \in 1..Min(Len(totals), Len(propers)) |-> ProperRatio(totals[k], propers[k])]

NoCall == [name |-> "none"]
NoBatch == [pc |-> "none"]
NoCache == [pc |-> "none"]
NoRegions == [n \in {} |-> <<>>]

getProperRatios ==
    /\ op = "init"
    /\ ratios' = ProperRatios(depth_total, depth_proper)
    /\ op' = "getProperRatios"
    /\ ncalls' = ncalls + 1
    /\ UNCHANGED <<raised, genome_length, depth_total, depth_proper,
                   smoothed_ratios, mean_insert_size, suspect_regions, call, batch, cache>>

InitRatios ==
    /\ op = "init"
    /\ raised = "none"
    /\ genome_length = 0
    /\ \E n \in 1..MaxLen :
          /\ depth_total \in [1..n -> 0..MaxDepth]
          /\ depth_proper \in [1..n -> 0..MaxDepth]
    /\ ratios = <<>>
    /\ smoothed_ratios = <<>>
    /\ mean_insert_size = Zero
    /\ suspect_regions = NoRegions
    /\ call = NoCall
    /\ ncalls = 0
    /\ batch = NoBatch
    /\ cache = NoCache

NextRatios == getProperRatios

SpecRatios == InitRatios /\ [][NextRatios]_vars

\* C1: for every position with 0 <= proper <= total, getProperRatios gives
\* NO_DATA (-1) when total = proper = 0, total when proper = 0 < total, and
\* (total - proper) / proper when proper > 0 (so exactly 0 when
\* total = proper > 0); there is one ratio per input position, in order.
C1_ThreeCaseReference ==
    op = "getProperRatios" =>
        /\ Len(ratios) = Len(depth_total)
        /\ \A k \in 1..Len(depth_total) :
              LET t == depth_total[k]
                  p == depth_proper[k]
              IN  (0 <= p /\ p <= t) =>
                    /\ (t = 0 /\ p = 0) => ratios[k] = <<-1, 1>>
                    /\ (p = 0 /\ 0 < t) => ratios[k] = <<t, 1>>
                    /\ p > 0 => RNum(ratios[k]) * p = (t - p) * RDen(ratios[k])
                    /\ (t = p /\ p > 0) => RNum(ratios[k]) = 0

\* C27: getProperRatios yields the NO_DATA sentinel -1 only for positions
\* with no aligned reads: for all non-negative counts (total, proper),
\* including pairs with proper > total, the ratio is -1 if and only if
\* total = proper = 0, and every other ratio is >= 0.
C27_NoDataOnlyWithoutReads ==
    op = "getProperRatios" =>
        \A k \in 1..Len(ratios) :
            /\ REq(ratios[k], NO_DATA) <=> (depth_total[k] = 0 /\ depth_proper[k] = 0)
            /\ ~REq(ratios[k], NO_DATA) => RLe(Zero, ratios[k])

\* C1 witness: after the call, one array holds all three cases and an
\* all-proper position.
C1_Witness ==
    /\ op = "getProperRatios"
    /\ \E i, j, k \in 1..Len(depth_total) :
          /\ depth_total[i] = 0 /\ depth_proper[i] = 0
          /\ depth_total[j] > 0 /\ depth_proper[j] = 0
          /\ depth_total[k] > 0 /\ depth_proper[k] = depth_total[k]

-----------------------------------------------------------------------------
(* Checker.getSmoothedRatios                                               *)

\* Ratios that getProperRatios produces: no data, all proper, 3 reads of
\* which 2 proper, and 2 reads of which none proper.
RatioValues == {NO_DATA, Zero, <<1, 2>>, Rat(2)}

\* len(range(0, stop, res)[::step])
RangeCount(stop, res, step) ==
    IF stop <= 0 THEN 0
    ELSE LET m == (stop + res - 1) \div res
         IN  (m + step - 1) \div step

\* range(0, len(values) * resolution - window, resolution)[::step], k-th item
WindowStart(k, step, resolution) == (k - 1) * step * resolution

\* these = use_ratios[(i / resolution) : ((i + window) / resolution)]
WindowSlice(values, i, window, resolution) ==
    Slice(values, i \div resolution, (i + window) \div resolution)

NotBelowZero(t) == RLe(Zero, t)

\* The surviving values of one window, zero-padded to half the nominal
\* window sample count when at most that many survive:
\*   these = [t for t in these if t >= 0]
\*   if len(these) <= window / 2.0 / resolution:
\*       these += [0] * int(window / 2.0 / resolution - len(these))
WindowKept(values, i, window, resolution) ==
    LET these == Filter(WindowSlice(values, i, window, resolution), NotBelowZero)
    IN  IF 2 * resolution * Len(these) <= window
        THEN these \o [k \in 1..((window \div (2 * resolution)) - Len(these)) |-> Zero]
        ELSE these

\* The mutant: the sum is divided by the nominal number of samples of a
\* window, window / float(resolution), not by the number of values kept.
MeanOfNominal(these, window, resolution) ==
    <<RNum(RSum(these)) * resolution, RDen(RSum(these)) * window>>

\* these_mean = sum(these) / float(len(these)), for len(these) > 0
MeanOf(these, window, resolution) == RDivInt(RSum(these), Len(these))

\* The windows' starts, and whether some window divides by zero.
SmoothCount(values, window, step, resolution) ==
    RangeCount(Len(values) * resolution - window, resolution, step)

SmoothRaises(values, window, step, resolution) ==
    \E k \in 1..SmoothCount(values, window, step, resolution) :
        WindowKept(values, WindowStart(k, step, resolution), window, resolution) = <<>>

SmoothedRatios(values, window, step, resolution) ==
    [k \in 1..SmoothCount(values, window, step, resolution) |->
        MeanOf(WindowKept(values, WindowStart(k, step, resolution), window, resolution),
               window, resolution)]

getSmoothedRatios ==
    /\ op = "init"
    /\ \E window \in 1..MaxWindow, step \in 1..MaxStep, resolution \in 1..MaxRes :
          /\ call' = [name |-> "getSmoothedRatios", window |-> window,
                      step |-> step, resolution |-> resolution]
          /\ IF SmoothRaises(ratios, window, step, resolution)
             THEN /\ raised' = "ZeroDivisionError"
                  /\ UNCHANGED smoothed_ratios
             ELSE /\ raised' = "none"
                  /\ smoothed_ratios' = SmoothedRatios(ratios, window, step, resolution)
    /\ op' = "getSmoothedRatios"
    /\ ncalls' = ncalls + 1
    /\ UNCHANGED <<genome_length, depth_total, depth_proper, ratios,
                   mean_insert_size, suspect_regions, batch, cache>>

InitSmooth ==
    /\ op = "init"
    /\ raised = "none"
    /\ genome_length = 0
    /\ depth_total = <<>>
    /\ depth_proper = <<>>
    /\ ratios \in SeqsOf(RatioValues, 1, MaxSeries)
    /\ smoothed_ratios = <<>>
    /\ mean_insert_size = Zero
    /\ suspect_regions = NoRegions
    /\ call = NoCall
    /\ ncalls = 0
    /\ batch = NoBatch
    /\ cache = NoCache

NextSmooth == getSmoothedRatios

SpecSmooth == InitSmooth /\ [][NextSmooth]_vars

\* The samples of `ratios` the k-th output of the last call was computed from.
SmoothedWindow(k) ==
    WindowSlice(ratios, WindowStart(k, call.step, call.resolution),
                call.window, call.resolution)

\* C9: every output sample of getSmoothedRatios whose window lies fully
\* inside a stretch of constant value v > 0 equals v, for every window width,
\* resolution and step.
C9_ConstantWindowMean ==
    (op = "getSmoothedRatios" /\ raised = "none") =>
        \A k \in 1..Len(smoothed_ratios) : \A v \in RatioValues :
            ( /\ RLt(Zero, v)
              /\ SmoothedWindow(k) # <<>>
              /\ \A j \in 1..Len(SmoothedWindow(k)) : SmoothedWindow(k)[j] = v )
            => REq(smoothed_ratios[k], v)

\* C9 witness: a series that is not constant, smoothed with a window of
\* several samples, one of whose windows is constant at a value above zero.
C9_Witness ==
    /\ op = "getSmoothedRatios" /\ raised = "none"
    /\ \E a, b \in 1..Len(ratios) : ratios[a] # ratios[b]
    /\ \E k \in 1..Len(smoothed_ratios) :
          /\ Len(SmoothedWindow(k)) >= 2
          /\ RLt(Zero, SmoothedWindow(k)[1])
          /\ \A j \in 1..Len(SmoothedWindow(k)) :
                SmoothedWindow(k)[j] = SmoothedWindow(k)[1]

\* The samples of the k-th window that are not below 0.
SurvivingIn(k) == Filter(SmoothedWindow(k), NotBelowZero)

\* The number of values the k-th mean is taken over: the surviving samples,
\* or half the nominal window sample count when at most that many survive.
ReferenceCount(k) ==
    IF 2 * call.resolution * Len(SurvivingIn(k)) <= call.window
    THEN call.window \div (2 * call.resolution)
    ELSE Len(SurvivingIn(k))

\* C23: each output sample of getSmoothedRatios equals the reference
\* windowed mean: of the window's samples those below 0 are dropped, and if
\* at most half the nominal window sample count (window / (2 * resolution))
\* are left, zeros are appended up to that half-count; the sample is the sum
\* divided by the count of surviving and padded values, and that count is
\* never zero.
C23_ReferenceWindowedMean ==
    op = "getSmoothedRatios" =>
        /\ raised = "none"
        /\ \A k \in 1..Len(smoothed_ratios) :
              /\ ReferenceCount(k) > 0
              /\ REq(RMulInt(smoothed_ratios[k], ReferenceCount(k)),
                     RSum(SurvivingIn(k)))

\* C10: on a series of NO_DATA values only, getSmoothedRatios completes
\* without error for any window width and resolution and every output sample
\* is 0.0.
C10_AllNoDataSmoothsToZero ==
    (op = "getSmoothedRatios" /\ \A j \in 1..Len(ratios) : ratios[j] = NO_DATA) =>
        /\ raised = "none"
        /\ \A k \in 1..Len(smoothed_ratios) : REq(smoothed_ratios[k], Zero)

-----------------------------------------------------------------------------
(* Checker.scan_threshold                                                  *)

Tests == {">=", "<=", "<", ">", "=="}     \* "==" stands for any other string
ScanValues == {Rat(0), Rat(2)}
Thresholds == {Rat(1), Rat(2)}
FilterNames == {"rearrangements", "rearrangements_extended"}
GenomeLengths == {MaxGenome - 2, MaxGenome}

\* The mutant: an operator outside the four is taken as equality.
threshold_crossedEquality(test, value, threshold) ==
    IF test = ">=" THEN RLe(threshold, value)
    ELSE IF test = "<=" THEN RLe(value, threshold)
    ELSE IF test = "<" THEN RLt(value, threshold)
    ELSE IF test = ">" THEN RLt(threshold, value)
    ELSE REq(value, threshold)

\* The test function chosen by the if / elif chain on `test`.
threshold_crossed(test, value, threshold) ==
    IF test = ">=" THEN RLe(threshold, value)
    ELSE IF test = "<=" THEN RLe(value, threshold)
    ELSE IF test = "<" THEN RLt(value, threshold)
    ELSE IF test = ">" THEN RLt(threshold, value)
    ELSE FALSE

\* The mutant: the positions are counted from 0, whatever the offset.
ScanPosNoOffset(k, offset, resolution) == (k - 1) * resolution

\* k-th item of range(offset, len(values) * resolution + offset, resolution)
ScanPos(k, offset, resolution) == offset + (k - 1) * resolution

\* The loop over zip(positions, use_values) from pair k on: the flat list of
\* boundary positions, given the `collecting` flag and the list so far.
RECURSIVE ScanWalk(_, _, _, _, _, _, _, _)
ScanWalk(values, k, collecting, found, threshold, test, offset, resolution) ==
    IF k > Len(values) THEN found
    ELSE LET pos == ScanPos(k, offset, resolution)
             crossed == threshold_crossed(test, values[k], threshold)
         IN  IF crossed /\ ~collecting
             THEN ScanWalk(values, k + 1, TRUE, Append(found, pos),
                           threshold, test, offset, resolution)
             ELSE IF ~crossed /\ collecting
             THEN ScanWalk(values, k + 1, FALSE, Append(found, pos),
                           threshold, test, offset, resolution)
             ELSE ScanWalk(values, k + 1, collecting, found,
                           threshold, test, offset, resolution)

\* The mutant: the open terminal range is not completed.
ScanBoundariesOpen(values, threshold, test, offset, resolution, glen) ==
    ScanWalk(values, 1, FALSE, <<>>, threshold, test, offset, resolution)

\* The walk, then "complete terminal range" with genome_length.
ScanBoundaries(values, threshold, test, offset, resolution, glen) ==
    LET found == ScanWalk(values, 1, FALSE, <<>>, threshold, test, offset, resolution)
    IN  IF Len(found) % 2 # 0 THEN Append(found, glen) ELSE found

\* [suspect_regions[n:n+2] for n in range(0, len(suspect_regions), 2)]
ScanPairs(found) ==
    [n \in 1..((Len(found) + 1) \div 2) |->
        SubSeq(found, 2 * n - 1, Min(2 * n, Len(found)))]

\* The mutant: "s >= buffer_distance" in place of "s > buffer_distance".
BufferKeepsFromBuffer(region, nvalues, offset, resolution, buffer_distance) ==
    /\ region[1] >= buffer_distance
    /\ region[2] < nvalues * resolution + offset - buffer_distance

\* s > buffer_distance and e < (len(values)*resolution + offset - buffer_distance)
BufferKeeps(region, nvalues, offset, resolution, buffer_distance) ==
    /\ region[1] > buffer_distance
    /\ region[2] < nvalues * resolution + offset - buffer_distance

\* "omit either end according to buffer_distance"
BufferFilter(pairs, nvalues, offset, resolution, buffer_distance) ==
    LET Keep(region) == BufferKeeps(region, nvalues, offset, resolution, buffer_distance)
    IN  SelectSeq(pairs, Keep)

\* The mutant: the dict is created anew at every call.
StoreRegionsAlone(sets, name, regions) == [n \in {name} |-> regions]

\* self.suspect_regions[name] = regions, creating the dict when absent.
StoreRegions(sets, name, regions) ==
    [n \in (DOMAIN sets) \cup {name} |-> IF n = name THEN regions ELSE sets[n]]

\* scan_threshold on a dense list of values.
ScanThreshold(values, threshold, offset, test, name, resolution, buffer_distance) ==
    LET found == ScanBoundaries(values, threshold, test, offset, resolution,
                                genome_length)
        pairs == ScanPairs(found)
    IN  /\ call' = [name |-> "scan_threshold", values |-> values,
                    threshold |-> threshold, offset |-> offset, test |-> test,
                    filter |-> name, resolution |-> resolution,
                    buffer_distance |-> buffer_distance,
                    boundaries |-> found, pairs |-> pairs]
        /\ IF \E n \in 1..Len(pairs) : Len(pairs[n]) # 2
           THEN \* "for s,e in suspect_regions" cannot unpack a single item
                /\ raised' = "ValueError"
                /\ UNCHANGED suspect_regions
           ELSE /\ raised' = "none"
                /\ suspect_regions' =
                      StoreRegions(suspect_regions, name,
                          BufferFilter(pairs, Len(values), offset, resolution,
                                       buffer_distance))
        /\ op' = "scan_threshold"
        /\ ncalls' = ncalls + 1

scan_threshold ==
    /\ \E values \in SeqsOf(ScanValues, 1, MaxSig), threshold \in Thresholds,
          offset \in 0..MaxOffset, test \in Tests, name \in FilterNames,
          resolution \in 1..MaxScanRes, buffer_distance \in 0..MaxBuffer :
          ScanThreshold(values, threshold, offset, test, name, resolution,
                        buffer_distance)
    /\ UNCHANGED <<genome_length, depth_total, depth_proper, ratios,
                   smoothed_ratios, mean_insert_size, batch, cache>>

InitScan ==
    /\ op = "init"
    /\ raised = "none"
    /\ genome_length \in GenomeLengths
    /\ depth_total = <<>>
    /\ depth_proper = <<>>
    /\ ratios = <<>>
    /\ smoothed_ratios = <<>>
    /\ mean_insert_size = Zero
    /\ suspect_regions = NoRegions
    /\ call = NoCall
    /\ ncalls = 0
    /\ batch = NoBatch
    /\ cache = NoCache

NextScan == op = "init" /\ scan_threshold

SpecScan == InitScan /\ [][NextScan]_vars

\* The regions the last scan_threshold call stored.
ScanResult == suspect_regions[call.filter]

\* The scanned signal's extent in genome coordinates.
ScanExtent == Len(call.values) * call.resolution + call.offset

\* C2: after the end-of-run completion rule the flattened list of boundary
\* positions has even length, and the regions scan_threshold returns are in
\* ascending order and pairwise disjoint: a region's end is never greater
\* than the start of a later region.
C2_EvenBoundariesAscendingRegions ==
    op = "scan_threshold" =>
        /\ Len(call.boundaries) % 2 = 0
        /\ raised = "none"
        /\ \A i, j \in 1..Len(ScanResult) :
              i < j => ScanResult[i][2] <= ScanResult[j][1]

\* C2 witness: a scan that returned several regions, the last one completed
\* by the end-of-run rule.
C2_Witness ==
    /\ op = "scan_threshold" /\ raised = "none"
    /\ Len(ScanResult) >= 2
    /\ Len(ScanWalk(call.values, 1, FALSE, <<>>, call.threshold, call.test,
                    call.offset, call.resolution)) % 2 = 1
    /\ ScanResult[Len(ScanResult)][2] = genome_length

\* C4: with buffer distance B and E the extent of the scanned signal, no
\* returned region has start <= B or end >= E - B, and every region of the
\* hysteresis walk that violates neither bound is returned.
C4_BufferExclusion ==
    (op = "scan_threshold" /\ raised = "none") =>
        /\ \A i \in 1..Len(ScanResult) :
              /\ ~(ScanResult[i][1] <= call.buffer_distance)
              /\ ~(ScanResult[i][2] >= ScanExtent - call.buffer_distance)
        /\ \A n \in 1..Len(call.pairs) :
              ( /\ call.pairs[n][1] > call.buffer_distance
                /\ call.pairs[n][2] < ScanExtent - call.buffer_distance )
              => \E i \in 1..Len(ScanResult) : ScanResult[i] = call.pairs[n]

\* C4 witness: a scan with a positive buffer distance that dropped a region
\* at each end and kept one in between.
C4_Witness ==
    /\ op = "scan_threshold" /\ raised = "none"
    /\ call.buffer_distance > 0
    /\ Len(ScanResult) >= 1
    /\ \E n \in 1..Len(call.pairs) : call.pairs[n][1] <= call.buffer_distance
    /\ \E n \in 1..Len(call.pairs) :
          call.pairs[n][2] >= ScanExtent - call.buffer_distance

\* The comparison operators scan_threshold knows.
KnownTests == {">=", ">", "<=", "<"}

\* C12: called with a comparison operator other than '>=', '>', '<=' and
\* '<', scan_threshold does not raise: whatever the signal, it returns and
\* stores an empty region list under the given filter name.
C12_UnknownTestFindsNothing ==
    (op = "scan_threshold" /\ call.test \notin KnownTests) =>
        /\ raised = "none"
        /\ call.filter \in DOMAIN suspect_regions
        /\ ScanResult = <<>>

\* C12 witness: a scan with the operator '==' over a signal holding a value
\* equal to the threshold, away from both buffers, has returned.
C12_Witness ==
    /\ op = "scan_threshold" /\ raised = "none"
    /\ call.test = "=="
    /\ call.buffer_distance = 0
    /\ \E k \in 2..(Len(call.values) - 1) : REq(call.values[k], call.threshold)
    /\ ScanResult = <<>>

\* C24: no region scan_threshold returns lies within buffer_distance of
\* either end of the chromosome sequence: every returned region has
\* start > buffer_distance and end < genome_length - buffer_distance, for
\* every signal length, offset and resolution.
C24_BufferFromChromosomeEnds ==
    (op = "scan_threshold" /\ raised = "none") =>
        \A i \in 1..Len(ScanResult) :
            /\ ScanResult[i][1] > call.buffer_distance
            /\ ScanResult[i][2] < genome_length - call.buffer_distance

\* The sample k of the last scan satisfies the test of the call.
Satisfies(k) ==
    LET v == call.values[k]
        t == call.threshold
    IN  \/ call.test = ">=" /\ ~RLt(v, t)
        \/ call.test = ">" /\ ~RLe(v, t)
        \/ call.test = "<=" /\ ~RLt(t, v)
        \/ call.test = "<" /\ ~RLe(t, v)

\* The maximal runs i..j of consecutive samples that satisfy the test.
MaximalRuns ==
    {run \in (1..Len(call.values)) \X (1..Len(call.values)) :
        /\ run[1] <= run[2]
        /\ \A k \in run[1]..run[2] : Satisfies(k)
        /\ run[1] = 1 \/ ~Satisfies(run[1] - 1)
        /\ run[2] = Len(call.values) \/ ~Satisfies(run[2] + 1)}

\* The region of a run: from the coordinate of its first sample to the
\* coordinate of the first sample after it, or to genome_length.
RegionOfRun(run) ==
    <<(run[1] - 1) * call.resolution + call.offset,
      IF run[2] = Len(call.values) THEN genome_length
      ELSE run[2] * call.resolution + call.offset>>

\* The signal of the worked example, [0,0,6,6,6,6,0,0].
ExampleSignal == <<Rat(0), Rat(0), Rat(6), Rat(6), Rat(6), Rat(6), Rat(0), Rat(0)>>

\* C19: before the buffer filter, the regions scan_threshold finds are
\* exactly the maximal runs of consecutive samples that satisfy the test,
\* in order: each starts at index * resolution + offset of the run's first
\* sample and ends at the coordinate of the first sample after the run, or
\* at genome_length when the run reaches the end of the signal. For the
\* signal [0,0,6,6,6,6,0,0] with resolution 1, offset 1, test >= 5, buffer
\* 0 and genome length 8 exactly one region is returned, (3, 7).
C19_RegionsAreMaximalRuns ==
    /\ (op = "scan_threshold" /\ call.test \in KnownTests) =>
          /\ raised = "none"
          /\ Len(call.pairs) = Cardinality(MaximalRuns)
          /\ {call.pairs[n] : n \in 1..Len(call.pairs)}
                = {RegionOfRun(run) : run \in MaximalRuns}
          /\ \A n \in 1..(Len(call.pairs) - 1) :
                call.pairs[n][1] < call.pairs[n + 1][1]
    /\ BufferFilter(ScanPairs(ScanBoundaries(ExampleSignal, Rat(5), ">=", 1, 1, 8)),
                    Len(ExampleSignal), 1, 1, 0) = << <<3, 7>> >>

\* C19 witness: a scan found two runs, the first one sample long and the
\* last one reaching the end of the signal, with a positive offset and a
\* resolution above 1.
C19_Witness ==
    /\ op = "scan_threshold" /\ raised = "none"
    /\ call.test \in KnownTests
    /\ call.offset > 0 /\ call.resolution > 1
    /\ Cardinality(MaximalRuns) = 2
    /\ \E run \in MaximalRuns : run[1] = run[2] /\ run[2] < Len(call.values)
    /\ \E run \in MaximalRuns : run[2] = Len(call.values)

-----------------------------------------------------------------------------
(* Checker.extend_regions                                                  *)

\* int(round(x)) for a float x >= 0 (Python 2 rounds halves away from zero).
RoundInt(x) == (2 * RNum(x) + RDen(x)) \div (2 * RDen(x))

\* The mutant: the partial bridges reach two windows and more past p.
HalfWindowDoubled(window_size) == 2 * window_size + 1

\* int(round(window_size / 2.0))
HalfWindow(window_size) == (window_size + 1) \div 2

IsNegative(r) == RLt(r, Zero)
IsNotPositive(r) == RLe(r, Zero)

\* The sweep's test on the window at p; TRUE when the sweep stops there:
\*   these_ratios = self.ratios[p / resolution: (p + window_size) / resolution]
\*   len([r for r in these_ratios if r < 0]) < window_size / resolution * threshold
WindowFails(rs, p, window_size, resolution, threshold) ==
    LET these_ratios == Slice(rs, p \div resolution, (p + window_size) \div resolution)
    IN  Len(Filter(these_ratios, IsNegative)) * RDen(threshold)
            < (window_size \div resolution) * RNum(threshold)

\* The test on a gap narrower than the window; TRUE when the gap is bridged:
\*   these_ratios = self.ratios[right_edge / resolution: next_left_edge / resolution]
\*   len([r for r in these_ratios if r <= 0]) > effective_window_size / resolution * threshold
NarrowGapBridged(rs, right_edge, next_left_edge, resolution, threshold) ==
    LET these_ratios == Slice(rs, right_edge \div resolution,
                              next_left_edge \div resolution)
    IN  Len(Filter(these_ratios, IsNotPositive)) * RDen(threshold)
            > ((next_left_edge - right_edge) \div resolution) * RNum(threshold)

\* The positions in lo..hi-1 at which the window test fails.
FailsIn(rs, lo, hi, window_size, resolution, threshold) ==
    {p \in lo..(hi - 1) : WindowFails(rs, p, window_size, resolution, threshold)}

\* The mutant: the sweep runs on to the last window that fails.
SetMinLast(S) == CHOOSE x \in S : \A y \in S : x >= y

SetMin(S) == CHOOSE x \in S : \A y \in S : x <= y
SetMax(S) == CHOOSE x \in S : \A y \in S : x >= y

\* The mutant: the branch is chosen with "<=", so that a gap exactly one
\* window wide is swept.
SweepsGapInclusive(right_edge, next_left_edge, window_size) ==
    right_edge <= next_left_edge - window_size

\* if right_edge < next_left_edge - window_size: sweep, else: direct test
SweepsGap(right_edge, next_left_edge, window_size) ==
    right_edge < next_left_edge - window_size

\* The right-to-left sweep from `end`, and what it appends to extensions.
BackwardSweep(rs, end, next_left_edge, window_size, resolution, threshold) ==
    LET fails == FailsIn(rs, end, next_left_edge - window_size,
                         window_size, resolution, threshold)
    IN  IF fails = {}
        THEN \* join is still True, also when range(end, ...) is empty
             [join |-> TRUE, p |-> -1, emitted |-> << <<end, next_left_edge>> >>]
        ELSE LET p == SetMax(fails)
             IN  IF p < next_left_edge - window_size - 1
                 THEN [join |-> FALSE, p |-> p,
                       emitted |-> << <<p + HalfWindow(window_size), next_left_edge>> >>]
                 ELSE [join |-> FALSE, p |-> p, emitted |-> <<>>]

\* One iteration of the loop over consecutive base regions: the branch taken,
\* the loop variables at its end and the regions appended to extensions.
ExtendGap(rs, right_edge, next_left_edge, window_size, resolution, threshold) ==
    IF SweepsGap(right_edge, next_left_edge, window_size)
    THEN LET fails == FailsIn(rs, right_edge, next_left_edge - window_size,
                              window_size, resolution, threshold)
         IN  IF fails = {}
             THEN [branch |-> "sweep", right |-> right_edge, next_left |-> next_left_edge,
                   forward_join |-> TRUE, forward_p |-> -1, end |-> -1,
                   backward_join |-> FALSE, backward_p |-> -1,
                   emitted |-> << <<right_edge, next_left_edge>> >>]
             ELSE LET p == SetMin(fails)
                      end == IF p > right_edge THEN p + HalfWindow(window_size)
                             ELSE right_edge
                      partial == IF p > right_edge
                                 THEN << <<right_edge, p + HalfWindow(window_size)>> >>
                                 ELSE <<>>
                      back == BackwardSweep(rs, end, next_left_edge, window_size,
                                            resolution, threshold)
                  IN  [branch |-> "sweep", right |-> right_edge,
                       next_left |-> next_left_edge,
                       forward_join |-> FALSE, forward_p |-> p, end |-> end,
                       backward_join |-> back.join, backward_p |-> back.p,
                       emitted |-> partial \o back.emitted]
    ELSE [branch |-> "direct", right |-> right_edge, next_left |-> next_left_edge,
          forward_join |-> FALSE, forward_p |-> -1, end |-> -1,
          backward_join |-> FALSE, backward_p |-> -1,
          emitted |-> IF NarrowGapBridged(rs, right_edge, next_left_edge,
                                          resolution, threshold)
                      THEN << <<right_edge, next_left_edge>> >>
                      ELSE <<>>]

\* The loop over range(len(base) - 1): one record per gap.
ExtendGaps(rs, base, window_size, resolution, threshold) ==
    [n \in 1..(Len(base) - 1) |->
        ExtendGap(rs, base[n][2], base[n + 1][1], window_size, resolution, threshold)]

RECURSIVE Flatten(_)
Flatten(ss) == IF ss = <<>> THEN <<>> ELSE Head(ss) \o Flatten(Tail(ss))

ExtendThresholds == {<<3, 20>>, <<1, 2>>}    \* 0.15 (checkStructure), 0.5 (default)
ExtendResolutions == {1, 2}

ExtendRegions(filter_name, filter_to_extend, resolution, threshold) ==
    /\ op' = "extend_regions"
    /\ ncalls' = ncalls + 1
    /\ IF filter_to_extend \notin DOMAIN suspect_regions
       THEN \* self.suspect_regions[filter_to_extend] does not exist
            /\ raised' = "KeyError"
            /\ call' = [name |-> "extend_regions", filter |-> filter_name,
                        base |-> filter_to_extend, resolution |-> resolution,
                        threshold |-> threshold, window_size |-> 0, gaps |-> <<>>]
            /\ UNCHANGED suspect_regions
       ELSE LET window_size == RoundInt(mean_insert_size)
                gaps == ExtendGaps(ratios, suspect_regions[filter_to_extend],
                                   window_size, resolution, threshold)
            IN  /\ raised' = "none"
                /\ call' = [name |-> "extend_regions", filter |-> filter_name,
                            base |-> filter_to_extend, resolution |-> resolution,
                            threshold |-> threshold, window_size |-> window_size,
                            gaps |-> gaps]
                /\ suspect_regions' =
                      StoreRegions(suspect_regions, filter_name,
                          Flatten([n \in 1..Len(gaps) |-> gaps[n].emitted]))

extend_regions ==
    /\ \E filter_name \in FilterNames, filter_to_extend \in FilterNames,
          resolution \in ExtendResolutions, threshold \in ExtendThresholds :
          ExtendRegions(filter_name, filter_to_extend, resolution, threshold)
    /\ UNCHANGED <<genome_length, depth_total, depth_proper, ratios,
                   smoothed_ratios, mean_insert_size, batch, cache>>

\* Mean insert sizes that round to 1..MaxInsert, halves included.
InsertSizes == {<<k, 2>> : k \in 2..(2 * MaxInsert)}

InitExtend ==
    /\ op = "init"
    /\ raised = "none"
    /\ genome_length = MaxGap + 3
    /\ depth_total = <<>>
    /\ depth_proper = <<>>
    /\ \E gapRatios \in [1..(ExtLen - 1) -> {NO_DATA, Zero, Rat(2)}] :
          \* position 0 lies before the first base region and has reads
          ratios = <<Rat(2)>> \o gapRatios
    /\ smoothed_ratios = <<>>
    /\ mean_insert_size \in InsertSizes
    /\ \E gap \in 0..MaxGap :
          suspect_regions =
              [n \in {"rearrangements"} |-> << <<1, 2>>, <<2 + gap, 3 + gap>> >>]
    /\ call = NoCall
    /\ ncalls = 0
    /\ batch = NoBatch
    /\ cache = NoCache

NextExtend == op = "init" /\ extend_regions

SpecExtend == InitExtend /\ [][NextExtend]_vars

\* The gaps of the last extend_regions call, and its arguments.
LastGaps == call.gaps

\* The number of NO_DATA samples in the window of the last call at p.
NoDataInWindow(p) ==
    LET these == Slice(ratios, p \div call.resolution,
                       (p + call.window_size) \div call.resolution)
    IN  Cardinality({k \in 1..Len(these) : these[k] = NO_DATA})

\* The window at p holds at least window_size / resolution * threshold
\* NO_DATA samples.
WindowPasses(p) ==
    NoDataInWindow(p) * RDen(call.threshold)
        >= (call.window_size \div call.resolution) * RNum(call.threshold)

EmittedIn(g) == {g.emitted[k] : k \in 1..Len(g.emitted)}

\* C7: in a gap wider than the window, a forward partial bridge (right, x)
\* is emitted only if a forward window passed the no-data test; a bridge
\* ending at the next region's left edge is emitted by the backward sweep
\* only if a backward-sweep window was tested and passed; and a backward
\* sweep that makes no progress emits nothing.
C7_BridgesJustified ==
    (op = "extend_regions" /\ raised = "none") =>
        \A n \in 1..Len(LastGaps) :
            LET g == LastGaps[n]
                first_back == g.next_left - call.window_size - 1
            IN  (g.branch = "sweep" /\ ~g.forward_join) =>
                  \A r \in EmittedIn(g) :
                     /\ (r[1] = g.right /\ r[2] < g.next_left) => WindowPasses(g.right)
                     /\ r[2] = g.next_left =>
                           /\ g.end <= first_back
                           /\ WindowPasses(first_back)

\* C8: for consecutive base regions whose gap is at least one window wide and
\* in which every window position of the left-to-right sweep holds at least
\* windowSize / resolution * threshold NO_DATA samples, extend_regions emits
\* exactly one region for the gap, (right, next_left).
C8_FullGapBridged ==
    (op = "extend_regions" /\ raised = "none") =>
        \A n \in 1..Len(LastGaps) :
            LET g == LastGaps[n]
            IN  ( /\ g.next_left - g.right >= call.window_size
                  /\ \A p \in g.right..(g.next_left - call.window_size) :
                        WindowPasses(p) )
                => g.emitted = << <<g.right, g.next_left>> >>

\* The base regions of the last call are ascending and disjoint.
BaseAscending ==
    \A n \in 1..Len(LastGaps) : LastGaps[n].right <= LastGaps[n].next_left

\* The regions r and q do not overlap.
Apart(r, q) == r[2] <= q[1] \/ q[2] <= r[1]

\* C18: given base regions that are ascending and disjoint, every region
\* (s, e) extend_regions emits for the gap between base region n and n+1
\* satisfies right_n <= s < e <= left_{n+1}, and the emitted regions do not
\* overlap one another.
C18_EmittedInsideGaps ==
    (op = "extend_regions" /\ raised = "none" /\ BaseAscending) =>
        /\ \A n \in 1..Len(LastGaps) :
              \A r \in EmittedIn(LastGaps[n]) :
                 /\ LastGaps[n].right <= r[1]
                 /\ r[1] < r[2]
                 /\ r[2] <= LastGaps[n].next_left
        /\ \A i, j \in 1..Len(suspect_regions[call.filter]) :
              i # j => Apart(suspect_regions[call.filter][i],
                             suspect_regions[call.filter][j])

\* C18 witness: a gap for which both sweeps emitted a partial bridge, the
\* first from the left region and the second up to the right region.
C18_Witness ==
    /\ op = "extend_regions" /\ raised = "none"
    /\ \E n \in 1..Len(LastGaps) :
          LET g == LastGaps[n]
          IN  /\ Len(g.emitted) = 2
              /\ g.emitted[1][1] = g.right
              /\ g.emitted[2][2] = g.next_left
              /\ g.emitted[1][2] < g.emitted[2][1]

\* C22: in the sweep branch, when the left-to-right sweep first fails at
\* window position p: if p > right the partial bridge
\* (right, p + round(windowSize / 2)) is emitted and the backward sweep
\* covers only positions at or after that boundary; if p = right no bridge
\* starting at right is emitted. At most two regions are emitted per gap.
C22_PartialBridgeAndBackwardSweep ==
    (op = "extend_regions" /\ raised = "none") =>
        \A n \in 1..Len(LastGaps) :
            LET g == LastGaps[n]
                p == g.forward_p
                boundary == p + ((call.window_size + 1) \div 2)
            IN  /\ Len(g.emitted) <= 2
                /\ (g.branch = "sweep" /\ ~g.forward_join) =>
                      /\ ~WindowPasses(p)
                      /\ \A q \in g.right..(p - 1) : WindowPasses(q)
                      /\ p > g.right =>
                            /\ Len(g.emitted) >= 1
                            /\ g.emitted[1] = <<g.right, boundary>>
                            /\ g.backward_join \/ g.backward_p >= boundary
                            /\ \A k \in 2..Len(g.emitted) : g.emitted[k][1] >= boundary
                      /\ p = g.right =>
                            \A r \in EmittedIn(g) : r[1] # g.right

\* C22 witness: a forward sweep that failed past its first window, and a
\* backward sweep that failed at or after the partial boundary and past its
\* own first window: a bridge from each side.
C22_Witness ==
    /\ op = "extend_regions" /\ raised = "none"
    /\ \E n \in 1..Len(LastGaps) :
          LET g == LastGaps[n]
          IN  /\ g.branch = "sweep" /\ ~g.forward_join /\ ~g.backward_join
              /\ g.forward_p > g.right
              /\ g.backward_p >= g.end
              /\ Len(g.emitted) = 2

\* C20: extend_regions chooses its branch by the width of the gap: a gap
\* (next_left - right) of at least windowSize is swept with the sliding
\* window, and only a gap strictly narrower than windowSize gets the direct
\* whole-gap test; in particular a gap equal to windowSize is swept.
C20_BranchByGapWidth ==
    (op = "extend_regions" /\ raised = "none") =>
        \A n \in 1..Len(LastGaps) :
            LET g == LastGaps[n]
            IN  /\ g.next_left - g.right >= call.window_size => g.branch = "sweep"
                /\ g.next_left - g.right < call.window_size => g.branch = "direct"

-----------------------------------------------------------------------------
(* extend_regions on gaps narrower than the window, between base regions   *)
(* whose edges fall on and off the multiples of the resolution.            *)

DirectLen == 7
DirectWindow == 4

extend_narrow ==
    /\ \E resolution \in ExtendResolutions, threshold \in ExtendThresholds :
          ExtendRegions("rearrangements_extended", "rearrangements",
                        resolution, threshold)
    /\ UNCHANGED <<genome_length, depth_total, depth_proper, ratios,
                   smoothed_ratios, mean_insert_size, batch, cache>>

InitDirect ==
    /\ op = "init"
    /\ raised = "none"
    /\ genome_length = 2 * DirectLen
    /\ depth_total = <<>>
    /\ depth_proper = <<>>
    /\ ratios \in [1..DirectLen -> {NO_DATA, Zero, Rat(2)}]
    /\ smoothed_ratios = <<>>
    /\ mean_insert_size = Rat(DirectWindow)
    /\ \E right \in 2..3, gap \in 0..(DirectWindow - 1) :
          suspect_regions =
              [n \in {"rearrangements"} |->
                  << <<1, right>>, <<right + gap, right + gap + 1>> >>]
    /\ call = NoCall
    /\ ncalls = 0
    /\ batch = NoBatch
    /\ cache = NoCache

NextDirect == op = "init" /\ extend_narrow

SpecDirect == InitDirect /\ [][NextDirect]_vars

\* The ratio samples of the gap g of the last call.
GapSamples(g) ==
    Slice(ratios, g.right \div call.resolution, g.next_left \div call.resolution)

\* C21: for a gap narrower than the window, extend_regions emits
\* (right, next_left) if and only if the fraction of the gap's ratio samples
\* that are NO_DATA or zero (their number divided by the number of samples
\* in the gap) exceeds threshold, and emits nothing for the gap otherwise.
C21_NarrowGapByFraction ==
    (op = "extend_regions" /\ raised = "none") =>
        \A n \in 1..Len(LastGaps) :
            LET g == LastGaps[n]
                samples == GapSamples(g)
                empty == Cardinality({k \in 1..Len(samples) :
                                         samples[k] = NO_DATA \/ REq(samples[k], Zero)})
                exceeds == /\ Len(samples) > 0
                           /\ empty * RDen(call.threshold)
                                 > Len(samples) * RNum(call.threshold)
            IN  g.next_left - g.right < call.window_size =>
                  /\ exceeds => g.emitted = << <<g.right, g.next_left>> >>
                  /\ ~exceeds => g.emitted = <<>>

-----------------------------------------------------------------------------
(* A Checker with its ratios, smoothed signal and mean insert size in      *)
(* place, on which scan_threshold (on the smoothed signal, with the test   *)
(* checkStructure passes) and extend_regions are called in any order.      *)

\* checker.scan_threshold(checker.smoothed_ratios, ..., test = '>=', ...)
scan_smoothed ==
    /\ \E offset \in 0..MaxOffset, name \in FilterNames,
          resolution \in 1..MaxScanRes, buffer_distance \in 0..MaxBuffer :
          \* the drawn signals hold 0 and 2: every threshold in between
          \* gives the crossings of threshold 1
          ScanThreshold(smoothed_ratios, Rat(1), offset, ">=", name, resolution,
                        buffer_distance)
    /\ UNCHANGED <<genome_length, depth_total, depth_proper, ratios,
                   smoothed_ratios, mean_insert_size, batch, cache>>

Init ==
    /\ op = "init"
    /\ raised = "none"
    /\ genome_length = MaxGenome
    /\ depth_total = <<>>
    /\ depth_proper = <<>>
    /\ ratios \in [1..(MaxGenome + 1) -> {NO_DATA}] \cup [1..(MaxGenome + 1) -> {Rat(2)}]
    /\ smoothed_ratios \in [1..MaxSig -> ScanValues]
    /\ mean_insert_size \in {Rat(1), Rat(2)}
    /\ suspect_regions = NoRegions
    /\ call = NoCall
    /\ ncalls = 0
    /\ batch = NoBatch
    /\ cache = NoCache

Next ==
    \/ ncalls < MaxCalls /\ scan_smoothed
    \/ ncalls < MaxCalls /\ extend_regions

Spec == Init /\ [][Next]_vars

\* C3: after any sequence of scan_threshold and extend_regions calls, every
\* region (start, end) stored in any filter set of the sample satisfies
\* 0 <= start < end <= genome_length.
C3_RegionsWithinGenome ==
    \A name \in DOMAIN suspect_regions :
        \A i \in 1..Len(suspect_regions[name]) :
            LET region == suspect_regions[name][i]
            IN  0 <= region[1] /\ region[1] < region[2] /\ region[2] <= genome_length

-----------------------------------------------------------------------------
(* The same Checker, called with three filter names: the two checkStructure *)
(* uses and the default name of scan_threshold.                             *)

MaxFrameSig == 5
MaxFrameCalls == 3

FrameNames == FilterNames \cup {"threshold"}

scan_named ==
    /\ \E name \in FrameNames :
          ScanThreshold(smoothed_ratios, Rat(1), 0, ">=", name, 1, 0)
    /\ UNCHANGED <<genome_length, depth_total, depth_proper, ratios,
                   smoothed_ratios, mean_insert_size, batch, cache>>

extend_named ==
    /\ \E filter_name \in FrameNames, filter_to_extend \in FrameNames :
          ExtendRegions(filter_name, filter_to_extend, 1, <<1, 2>>)
    /\ UNCHANGED <<genome_length, depth_total, depth_proper, ratios,
                   smoothed_ratios, mean_insert_size, batch, cache>>

InitFrame ==
    /\ op = "init"
    /\ raised = "none"
    /\ genome_length = MaxGenome
    /\ depth_total = <<>>
    /\ depth_proper = <<>>
    /\ ratios \in [1..(MaxGenome + 1) -> {NO_DATA}] \cup [1..(MaxGenome + 1) -> {Rat(2)}]
    /\ smoothed_ratios \in [1..MaxFrameSig -> ScanValues]
    /\ mean_insert_size = Rat(1)
    /\ suspect_regions = NoRegions
    /\ call = NoCall
    /\ ncalls = 0
    /\ batch = NoBatch
    /\ cache = NoCache

NextFrame ==
    \/ ncalls < MaxFrameCalls /\ scan_named
    \/ ncalls < MaxFrameCalls /\ extend_named

SpecFrame == InitFrame /\ [][NextFrame]_vars

\* In this step every filter set other than the one the call names stays
\* as it is, and no set other than the named one appears.
OnlyNamedSetChanges ==
    /\ \A n \in DOMAIN suspect_regions :
          n # call'.filter =>
              /\ n \in DOMAIN suspect_regions'
              /\ suspect_regions'[n] = suspect_regions[n]
    /\ DOMAIN suspect_regions' \subseteq (DOMAIN suspect_regions) \cup {call'.filter}

\* C17: extend_regions called with a result name different from the base
\* filter name leaves the base filter set and every other existing filter
\* set unchanged, and scan_threshold with name N changes only filter set N:
\* only the named result set is created or replaced.
C17_OnlyNamedSetWritten ==
    [][op' \in {"scan_threshold", "extend_regions"} => OnlyNamedSetChanges]_vars

\* C17 witness: three filter sets exist, and the last call extended a base
\* set of several regions into a set of another name, emitting a bridge.
C17_Witness ==
    /\ op = "extend_regions" /\ raised = "none"
    /\ call.filter # call.base
    /\ DOMAIN suspect_regions = FrameNames
    /\ Len(suspect_regions[call.base]) >= 2
    /\ Len(suspect_regions[call.filter]) >= 1

-----------------------------------------------------------------------------
(* checkStructure: one call over a batch of alignment files.               *)
(*                                                                         *)
(* What pysam reads from a BAM file is given per kind of file: the depths  *)
(* the pileup yields at every 10th position and the template lengths of    *)
(* the proper first-of-pair reads. `batch` holds the call's arguments, the *)
(* files on disk, the Checker objects and the driver's position.           *)

PathSeq == <<"p1", "p2", "p3">>              \* the files, in argument order
Paths == {PathSeq[i] : i \in 1..Len(PathSeq)}
SampleNames == <<"s1", "s2">>                \* read group IDs, in sorted order
Kinds == {"good", "nofrag", "allproper", "missing"}

BamGenomeLength == 120                       \* reads.lengths[0] of every file
CoverageResolution == 10                     \* getCoverageDepths' own default
SmoothResolution == 10                       \* resolution = 10 in the call
SmoothStep == 1                              \* step = 1 in the call
UpperLimit == 10000                          \* getMeanInsertSize' upper_limit
ExtendThresholdNum == 15                     \* threshold = 0.15 in the call
ExtendThresholdDen == 100

\* depth_total / depth_proper as the pileup loop fills them: reads at every
\* position but one; two disrupted positions unless all pairs are proper.
BamDepthTotal(kind) ==
    [k \in 1..((BamGenomeLength \div CoverageResolution) + 1) |->
        IF k = 6 THEN 0 ELSE 4]

BamDepthProper(kind) ==
    [k \in 1..((BamGenomeLength \div CoverageResolution) + 1) |->
        IF k = 6 THEN 0
        ELSE IF kind # "allproper" /\ k \in {4, 8} THEN 1 ELSE 4]

\* abs(read.template_length) of the reads passing the flags and quality.
BamInsertLengths(kind) ==
    IF kind = "nofrag" THEN <<12000>>
    ELSE IF kind = "good" THEN <<20, 20, 21, 12000>>
    ELSE <<18, 22, 12000>>

IsBelowUpperLimit(insert_length) == insert_length < UpperLimit

\* isizes: the insert lengths below upper_limit
InsertSizesOf(kind) == Filter(BamInsertLengths(kind), IsBelowUpperLimit)

RECURSIVE SumInts(_)
SumInts(xs) == IF xs = <<>> THEN 0 ELSE Head(xs) + SumInts(Tail(xs))

\* mean_insert_size = sum(isizes) / float(len(isizes)), for isizes not empty
MeanInsertSizeOf(kind) == <<SumInts(InsertSizesOf(kind)), Len(InsertSizesOf(kind))>>

IsNonZero(m) == ~REq(m, Zero)

\* A new Checker: __init__ sets reads, reads_name, genome_length, genome_name.
NewChecker(path, reads_name) ==
    [path |-> path, reads_name |-> reads_name, genome_length |-> BamGenomeLength,
     stage |-> "CREATED", loaded_depths |-> FALSE, loaded_insert_size |-> FALSE,
     depth_total |-> <<>>, depth_proper |-> <<>>, mean_insert_size |-> Zero,
     ratios |-> <<>>, smoothed_ratios |-> <<>>, threshold |-> Zero,
     suspect_regions |-> NoRegions]

NoFile == <<>>

\* The mutant: both members of the archive are written from depth_total.
DepthsFileTotalOnly(total, proper) ==
    [format |-> "tar", depth_total |-> total, depth_proper |-> total]

\* The archive the save block writes: add_array(depth_total, 'depth_total'),
\* add_array(depth_proper, 'depth_proper'); the load block sets each member
\* as the attribute of its name.
DepthsFile(total, proper) ==
    [format |-> "tar", depth_total |-> total, depth_proper |-> proper]

\* A file at the cache's path that is no gzipped tar archive.
GarbageDepthsFile == [format |-> "garbage", depth_total |-> <<>>, depth_proper |-> <<>>]

\* str(mean_insert_size) read back by float(): the value to a fixed number
\* of digits. Python 2 keeps 12 significant digits; the model keeps 4
\* decimal places, a coarser rounding of the same kind.
StrScale == 10000
StrOfFloat(m) == <<(2 * RNum(m) * StrScale + RDen(m)) \div (2 * RDen(m)), StrScale>>

\* The text file open(filein, 'w').write(str(mean_insert_size)) leaves.
InsertSizeFile(m) == [text |-> "float", value |-> StrOfFloat(m)]

\* A file at the cache's path whose text float() cannot parse.
GarbageInsertSizeFile == [text |-> "garbage", value |-> Zero]

\* The cache files found when checkStructure is first called: none, those
\* an earlier run on the same files left behind, or unusable ones.
CacheStates == {"none", "earlier", "malformed"}

EarlierDepths(kind) ==
    IF kind \in {"good", "nofrag", "allproper"}
    THEN << DepthsFile(BamDepthTotal(kind), BamDepthProper(kind)) >>
    ELSE NoFile

EarlierInsertSize(kind) ==
    IF kind \in {"good", "allproper"} THEN << InsertSizeFile(MeanInsertSizeOf(kind)) >>
    ELSE NoFile

FoundDepths(caches, kind) ==
    IF caches = "earlier" THEN EarlierDepths(kind)
    ELSE IF caches = "malformed" THEN << GarbageDepthsFile >>
    ELSE NoFile

FoundInsertSize(caches, kind) ==
    IF caches = "earlier" THEN EarlierInsertSize(kind)
    ELSE IF caches = "malformed" THEN << GarbageInsertSizeFile >>
    ELSE NoFile

\* sorted(checkers.items()): the read group names present, in sorted order.
IsCheckerName(n) == n \in DOMAIN batch.checkers
SortedSamples == SelectSeq(SampleNames, IsCheckerName)

CurrentName == SortedSamples[batch.cnum]
Current == batch.checkers[CurrentName]

checkerVars == <<op, raised, genome_length, depth_total, depth_proper, ratios,
                 smoothed_ratios, mean_insert_size, suspect_regions, call, ncalls,
                 cache>>

\* The driver is in the body of the second loop, at sample cnum, whose
\* Checker has completed `stage`.
AtStage(stage) ==
    /\ batch.pc = "process"
    /\ Current.stage = stage

\* The current sample's Checker becomes c; the driver stays in the loop body.
Advance(c) ==
    /\ batch' = [batch EXCEPT !.checkers[CurrentName] = c]
    /\ UNCHANGED checkerVars

\* An exception leaves the loop and checkStructure: nothing catches it.
Raise(exception) ==
    /\ batch' = [batch EXCEPT !.pc = "raised", !.exception = exception]
    /\ UNCHANGED checkerVars

\* for BAM in BAMs: this_checker = Checker(BAM); checkers[reads_name] = ...
Construct ==
    /\ batch.pc = "construct"
    /\ batch.made < Len(batch.BAMs)
    /\ LET path == batch.BAMs[batch.made + 1]
       IN  IF batch.disk[path] = "missing"
           THEN Raise("AssertionError")
           ELSE /\ batch' = [batch EXCEPT
                      !.made = batch.made + 1,
                      !.checkers = [n \in (DOMAIN batch.checkers) \cup {batch.rg[path]} |->
                                      IF n = batch.rg[path]
                                      THEN NewChecker(path, batch.rg[path])
                                      ELSE batch.checkers[n]]]
                /\ UNCHANGED checkerVars

\* The first loop is over; the second starts on the first sample in sorted
\* order.
StartProcessing ==
    /\ batch.pc = "construct"
    /\ batch.made = Len(batch.BAMs)
    /\ batch' = [batch EXCEPT !.pc = "process", !.cnum = 1]
    /\ UNCHANGED checkerVars

\* checker.getCoverageDepths(min_mapping_quality = min_mapping_quality)
CoverageDepths ==
    /\ AtStage("CREATED")
    /\ LET path == Current.path
           kind == batch.disk[path]
           cached == batch.depth_cache[path]
       IN  IF cached # NoFile /\ cached[1].format = "garbage"
           THEN \* tarfile.open raises tarfile.ReadError, which is no IOError
                Raise("ReadError")
           ELSE IF cached # NoFile
           THEN Advance([Current EXCEPT
                    !.stage = "COUNTS_LOADED", !.loaded_depths = TRUE,
                    !.depth_total = cached[1].depth_total,
                    !.depth_proper = cached[1].depth_proper])
           ELSE \* except IOError: count from the pileup, then save; an
                \* IOError of the save is caught and leaves no file
                /\ batch' = [batch EXCEPT
                      !.checkers[CurrentName] = [Current EXCEPT
                          !.stage = "COUNTS_LOADED",
                          !.depth_total = BamDepthTotal(kind),
                          !.depth_proper = BamDepthProper(kind)],
                      !.depth_cache[path] =
                          IF batch.writable
                          THEN << DepthsFile(BamDepthTotal(kind), BamDepthProper(kind)) >>
                          ELSE cached]
                /\ UNCHANGED checkerVars

\* checker.getMeanInsertSize()
MeanInsertSize ==
    /\ AtStage("COUNTS_LOADED")
    /\ LET path == Current.path
           kind == batch.disk[path]
           cached == batch.insert_cache[path]
           \* float(open(filein).read()): IOError and ValueError are caught
           loaded_from_file == cached # NoFile /\ cached[1].text = "float"
       IN  IF loaded_from_file /\ ~REq(cached[1].value, Zero)
           THEN Advance([Current EXCEPT
                    !.stage = "INSERT_SIZE_KNOWN", !.loaded_insert_size = TRUE,
                    !.mean_insert_size = cached[1].value])
           ELSE IF InsertSizesOf(kind) = <<>>
           THEN Raise("ZeroDivisionError")
           ELSE \* "if save and not loaded_from_file"; an IOError of the
                \* write is caught
                /\ batch' = [batch EXCEPT
                      !.checkers[CurrentName] = [Current EXCEPT
                          !.stage = "INSERT_SIZE_KNOWN",
                          !.mean_insert_size = MeanInsertSizeOf(kind)],
                      !.insert_cache[path] =
                          IF ~loaded_from_file /\ batch.writable
                          THEN << InsertSizeFile(MeanInsertSizeOf(kind)) >>
                          ELSE cached]
                /\ UNCHANGED checkerVars

\* The mutant: the ratios are computed as soon as the counts are loaded.
ProperRatiosBeforeInsertSize ==
    /\ AtStage("COUNTS_LOADED")
    /\ Advance([Current EXCEPT
           !.stage = "RATIOS_COMPUTED",
           !.ratios = ProperRatios(Current.depth_total, Current.depth_proper)])

\* checker.getProperRatios(resolution)
ProperRatiosStep ==
    /\ AtStage("INSERT_SIZE_KNOWN")
    /\ Advance([Current EXCEPT
           !.stage = "RATIOS_COMPUTED",
           !.ratios = ProperRatios(Current.depth_total, Current.depth_proper)])

\* window = int(round(checker.mean_insert_size))
WindowOf(c) == RoundInt(c.mean_insert_size)

\* checker.getSmoothedRatios(window = ..., step = 1, resolution = 10)
SmoothedRatiosStep ==
    /\ AtStage("RATIOS_COMPUTED")
    /\ IF SmoothRaises(Current.ratios, WindowOf(Current), SmoothStep, SmoothResolution)
       THEN Raise("ZeroDivisionError")
       ELSE Advance([Current EXCEPT
                !.stage = "SMOOTHED",
                !.smoothed_ratios = SmoothedRatios(Current.ratios, WindowOf(Current),
                                                   SmoothStep, SmoothResolution)])

\* The mutant: with no non-zero smoothed ratio the threshold defaults to 0.
ThresholdStepDefaulting ==
    /\ AtStage("SMOOTHED")
    /\ LET use_smoothed_ratios == Filter(Current.smoothed_ratios, IsNonZero)
       IN  IF use_smoothed_ratios = <<>>
           THEN Advance([Current EXCEPT !.stage = "THRESHOLD_SET", !.threshold = Zero])
           ELSE Advance([Current EXCEPT
                    !.stage = "THRESHOLD_SET",
                    !.threshold = RMulInt(RDivInt(RSum(use_smoothed_ratios),
                                                  Len(use_smoothed_ratios)),
                                          batch.mean_param)])

\* use_smoothed_ratios = [m for m in checker.smoothed_ratios if m != 0]
\* mean_smoothed_ratios = sum(use_smoothed_ratios) / len(use_smoothed_ratios)
\* checker.threshold = mean_smoothed_ratios * mean_param
ThresholdStep ==
    /\ AtStage("SMOOTHED")
    /\ LET use_smoothed_ratios == Filter(Current.smoothed_ratios, IsNonZero)
       IN  IF use_smoothed_ratios = <<>>
           THEN Raise("ZeroDivisionError")
           ELSE Advance([Current EXCEPT
                    !.stage = "THRESHOLD_SET",
                    !.threshold = RMulInt(RDivInt(RSum(use_smoothed_ratios),
                                                  Len(use_smoothed_ratios)),
                                          batch.mean_param)])

\* The regions scan_threshold stores for a dense signal.
ScanRegions(values, threshold, offset, test, resolution, buffer_distance, glen) ==
    BufferFilter(ScanPairs(ScanBoundaries(values, threshold, test, offset,
                                          resolution, glen)),
                 Len(values), offset, resolution, buffer_distance)

\* checker.scan_threshold(checker.smoothed_ratios, threshold = checker.threshold,
\*     offset = window / 2 / step, test = '>=', name = 'rearrangements',
\*     resolution = resolution, buffer_distance = int(round(mean_insert_size)))
ScanStep ==
    /\ AtStage("THRESHOLD_SET")
    /\ Advance([Current EXCEPT
           !.stage = "SCANNED",
           !.suspect_regions =
               StoreRegions(Current.suspect_regions, "rearrangements",
                   ScanRegions(Current.smoothed_ratios, Current.threshold,
                               (WindowOf(Current) \div 2) \div batch.step, ">=",
                               batch.resolution, WindowOf(Current),
                               Current.genome_length))])

\* checker.extend_regions('rearrangements_extended', 'rearrangements',
\*     resolution = resolution, threshold = 0.15)
ExtendStep ==
    /\ AtStage("SCANNED")
    /\ LET gaps == ExtendGaps(Current.ratios, Current.suspect_regions["rearrangements"],
                              WindowOf(Current), batch.resolution,
                              <<ExtendThresholdNum, ExtendThresholdDen>>)
       IN  Advance([Current EXCEPT
               !.stage = "EXTENDED",
               !.suspect_regions =
                   StoreRegions(Current.suspect_regions, "rearrangements_extended",
                       Flatten([n \in 1..Len(gaps) |-> gaps[n].emitted]))])

\* checker.saveLocal(...), then the next sample or return(checkers).
SaveLocal ==
    /\ AtStage("EXTENDED")
    /\ batch' = [batch EXCEPT
           !.checkers[CurrentName] = [Current EXCEPT !.stage = "PERSISTED"],
           !.saved = [n \in (DOMAIN batch.saved) \cup {CurrentName} |->
                         IF n = CurrentName THEN Current.suspect_regions
                         ELSE batch.saved[n]],
           !.cnum = IF batch.cnum < Len(SortedSamples) THEN batch.cnum + 1
                    ELSE batch.cnum,
           !.pc = IF batch.cnum < Len(SortedSamples) THEN "process" ELSE "returned"]
    /\ UNCHANGED checkerVars

\* checkStructure is called again on the same files, once the previous call
\* has returned or raised: what that call left on disk is still there.
MaxRuns == 2

NoChecker == [n \in {} |-> NewChecker("p1", "s1")]

Rerun ==
    /\ batch.pc \in {"returned", "raised"}
    /\ batch.run < MaxRuns
    /\ batch' = [batch EXCEPT
           !.run = batch.run + 1,
           !.previous = [pc |-> batch.pc, exception |-> batch.exception,
                      checkers |-> batch.checkers],
           !.pc = "construct", !.exception = "none", !.made = 0, !.cnum = 0,
           !.checkers = NoChecker,
           !.saved = [n \in {} |-> NoRegions]]
    /\ UNCHANGED checkerVars

\* The batches: 1..MaxBams distinct files. Their contents and read group
\* names are drawn freely, so every processing order of every mix occurs.
BamLists == {SubSeq(PathSeq, 1, n) : n \in 1..Min(MaxBams, Len(PathSeq))}

InitBatch ==
    /\ op = "init"
    /\ raised = "none"
    /\ genome_length = 0
    /\ depth_total = <<>>
    /\ depth_proper = <<>>
    /\ ratios = <<>>
    /\ smoothed_ratios = <<>>
    /\ mean_insert_size = Zero
    /\ suspect_regions = NoRegions
    /\ call = NoCall
    /\ ncalls = 0
    /\ cache = NoCache
    /\ \E bams \in BamLists, caches \in CacheStates, writable \in BOOLEAN,
          mean_param \in {1, 5}, resolution \in {10, 20} :
       \E disk \in [Paths -> Kinds], rg \in [Paths -> {"s1", "s2"}] :
          /\ \A path \in Paths :
                path \notin {bams[i] : i \in 1..Len(bams)} =>
                    (disk[path] = "missing" /\ rg[path] = "s1")
          /\ batch = [pc |-> "construct", exception |-> "none",
                      BAMs |-> bams, mean_param |-> mean_param,
                      resolution |-> resolution, step |-> 1,
                      disk |-> disk, rg |-> rg,
                      writable |-> writable,
                      depth_cache |-> [path \in Paths |->
                          FoundDepths(caches, disk[path])],
                      insert_cache |-> [path \in Paths |->
                          FoundInsertSize(caches, disk[path])],
                      made |-> 0, cnum |-> 0,
                      checkers |-> NoChecker,
                      saved |-> [n \in {} |-> NoRegions],
                      run |-> 1,
                      previous |-> [pc |-> "none", exception |-> "none",
                                 checkers |-> NoChecker]]

NextBatch ==
    \/ Construct
    \/ StartProcessing
    \/ CoverageDepths
    \/ MeanInsertSize
    \/ ProperRatiosStep
    \/ SmoothedRatiosStep
    \/ ThresholdStep
    \/ ScanStep
    \/ ExtendStep
    \/ SaveLocal
    \/ Rerun

SpecBatch == InitBatch /\ [][NextBatch]_vars

\* The stages in the order checkStructure performs them, and in the order
\* the specification lists them.
CodeStages == <<"CREATED", "COUNTS_LOADED", "INSERT_SIZE_KNOWN", "RATIOS_COMPUTED",
                "SMOOTHED", "THRESHOLD_SET", "SCANNED", "EXTENDED", "PERSISTED">>
ListedStages == <<"CREATED", "COUNTS_LOADED", "RATIOS_COMPUTED", "INSERT_SIZE_KNOWN",
                  "SMOOTHED", "THRESHOLD_SET", "SCANNED", "EXTENDED", "PERSISTED">>

\* In this step every sample whose stage changes moves to the stage that
\* follows its own in `order`.
StepsFollow(order) ==
    \A n \in DOMAIN batch.checkers :
        (n \in DOMAIN batch'.checkers
            /\ batch'.checkers[n].stage # batch.checkers[n].stage) =>
        \E k \in 1..(Len(order) - 1) :
            /\ order[k] = batch.checkers[n].stage
            /\ order[k + 1] = batch'.checkers[n].stage

\* The input files of the call, and whether all carry different read groups.
InputPaths == {batch.BAMs[i] : i \in 1..Len(batch.BAMs)}
DistinctSamples ==
    \A p, q \in InputPaths : p # q => batch.rg[p] # batch.rg[q]

\* A file whose own pipeline has no failing stage: it exists, it has usable
\* fragments and a non-zero smoothed ratio.
Healthy(path) == batch.disk[path] = "good"

\* C5: when one sample of a batch fails at any stage, every other sample is
\* still processed through all its stages to the persisted state, whatever
\* the processing order. Stated for the batches all of whose files exist
\* (every Checker is constructed) and carry different read groups: once the
\* call has ended, every input whose own pipeline has no failing stage is
\* PERSISTED.
C5_SiblingsStillProcessed ==
    ( /\ batch.pc \in {"returned", "raised"}
      /\ DistinctSamples
      /\ \A path \in InputPaths : batch.disk[path] # "missing" ) =>
        \A path \in InputPaths :
            Healthy(path) =>
                /\ batch.rg[path] \in DOMAIN batch.checkers
                /\ batch.checkers[batch.rg[path]].stage = "PERSISTED"

\* C11: running checkStructure a second time on the same alignment input,
\* where the second run may load the depth and insert-size caches the first
\* has written, yields the same filter sets as the first run: the run ends
\* the same way, with the same samples, and every sample's
\* 'rearrangements' and 'rearrangements_extended' sets are identical.
C11_SecondRunSameFilterSets ==
    (batch.run >= 2 /\ batch.pc \in {"returned", "raised"}) =>
        /\ batch.pc = batch.previous.pc
        /\ batch.exception = batch.previous.exception
        /\ DOMAIN batch.checkers = DOMAIN batch.previous.checkers
        /\ \A n \in DOMAIN batch.checkers :
              batch.checkers[n].suspect_regions
                  = batch.previous.checkers[n].suspect_regions

\* C11 witness: a second run has returned for a sample whose depths and
\* insert size the first run computed and saved and the second loaded, the
\* loaded insert size being the rounded text of the computed one, with
\* regions in both filter sets.
C11_Witness ==
    /\ batch.run = 2 /\ batch.pc = "returned"
    /\ \E n \in DOMAIN batch.checkers :
          /\ ~batch.previous.checkers[n].loaded_depths
          /\ ~batch.previous.checkers[n].loaded_insert_size
          /\ batch.checkers[n].loaded_depths
          /\ batch.checkers[n].loaded_insert_size
          /\ ~REq(batch.checkers[n].mean_insert_size,
                  batch.previous.checkers[n].mean_insert_size)
          /\ Len(batch.checkers[n].suspect_regions["rearrangements"]) > 0
          /\ Len(batch.checkers[n].suspect_regions["rearrangements_extended"]) > 0

\* The stages from the assignment of the threshold on.
ThresholdStages == {"THRESHOLD_SET", "SCANNED", "EXTENDED", "PERSISTED"}

\* C13: when the insert-size estimation finds no usable fragment, or when no
\* smoothed ratio is non-zero, the sample's pipeline stops with an error
\* before a threshold is assigned: a sample that has a threshold has it
\* from a non-empty set of non-zero smoothed ratios and it is not zero; a
\* sample without usable fragments (and without a cached insert size) gets
\* no mean_insert_size and goes no further than its counts; no filter set
\* exists before the threshold does; and a call that returns has taken
\* every sample to the end.
C13_EmptySampleStops ==
    /\ \A n \in DOMAIN batch.checkers :
          LET c == batch.checkers[n]
          IN  /\ c.stage \in ThresholdStages =>
                    /\ Filter(c.smoothed_ratios, IsNonZero) # <<>>
                    /\ ~REq(c.threshold, Zero)
              /\ (InsertSizesOf(batch.disk[c.path]) = <<>> /\ ~c.loaded_insert_size) =>
                    /\ c.stage \in {"CREATED", "COUNTS_LOADED"}
                    /\ c.mean_insert_size = Zero
              /\ c.stage \notin ThresholdStages =>
                    /\ c.threshold = Zero
                    /\ c.suspect_regions = NoRegions
    /\ batch.pc = "returned" =>
          \A n \in DOMAIN batch.checkers : batch.checkers[n].stage = "PERSISTED"

\* C13 witness: the call has raised at the threshold derivation of a sample
\* whose smoothed ratios are all zero, after an earlier sample was saved.
C13_Witness ==
    /\ batch.pc = "raised" /\ batch.exception = "ZeroDivisionError"
    /\ batch.cnum = 2
    /\ Current.stage = "SMOOTHED"
    /\ Len(Current.smoothed_ratios) > 0
    /\ Filter(Current.smoothed_ratios, IsNonZero) = <<>>

\* The exceptions the cache blocks of getCoverageDepths and
\* getMeanInsertSize can raise on a file they cannot read or write.
CacheExceptions == {"IOError", "ValueError", "ReadError"}

\* C15: a cache failure never aborts a sample: when reading a cache fails
\* for any reason (file missing, unreadable or malformed) the stage
\* recomputes its result from the alignment, and when writing a cache fails
\* the result is kept on the sample and the pipeline continues. No call
\* ends with an exception of a cache read or write, and a sample past a
\* stage whose cache was not loaded holds the values of its alignment.
C15_CacheFailureNeverAborts ==
    /\ ~(batch.pc = "raised" /\ batch.exception \in CacheExceptions)
    /\ \A n \in DOMAIN batch.checkers :
          LET c == batch.checkers[n]
          IN  /\ (c.stage # "CREATED" /\ ~c.loaded_depths) =>
                    /\ c.depth_total = BamDepthTotal(batch.disk[c.path])
                    /\ c.depth_proper = BamDepthProper(batch.disk[c.path])
              /\ (c.stage \notin {"CREATED", "COUNTS_LOADED"} /\ ~c.loaded_insert_size) =>
                    c.mean_insert_size = MeanInsertSizeOf(batch.disk[c.path])

\* C16: checkStructure creates, processes and returns exactly one sample
\* analysis per input alignment source: for any list of distinct BAM inputs
\* the number of Checker objects returned equals the number of inputs, and
\* every input is the file of one of them.
C16_OneCheckerPerInput ==
    batch.pc = "returned" =>
        /\ Cardinality(DOMAIN batch.checkers) = Len(batch.BAMs)
        /\ \A path \in InputPaths :
              \E n \in DOMAIN batch.checkers : batch.checkers[n].path = path

\* The stages at which the scan of a sample has been made.
ScannedStages == {"SCANNED", "EXTENDED", "PERSISTED"}

\* offset = window / 2 / step, as checkStructure passes it to the scan
ScanOffsetOf(c) == (WindowOf(c) \div 2) \div batch.step

\* Twice the distance from the centre of the window of smoothed sample k to
\* the coordinate the scan gives that sample. The window of sample k starts
\* at the k-th item of range(0, ..., 10)[::1] and is `window` wide; the scan
\* walks positions offset + index * resolution.
TwiceOffCentre(c, k) ==
    2 * ScanPos(k, ScanOffsetOf(c), batch.resolution)
        - (2 * WindowStart(k, SmoothStep, SmoothResolution) + WindowOf(c))

\* C25: for every resolution and step passed to checkStructure, the
\* coordinate the scan assigns to smoothed sample k (k*resolution + offset)
\* is the centre of the genomic window from which sample k was computed (to
\* the half position integer division loses): the depth, ratio, smoothing
\* and scan stages all use the same resolution and step.
C25_ScanCoordinateIsWindowCentre ==
    \A n \in DOMAIN batch.checkers :
        LET c == batch.checkers[n]
        IN  c.stage \in ScannedStages =>
                /\ batch.resolution = SmoothResolution
                /\ batch.resolution = CoverageResolution
                /\ batch.step = SmoothStep
                /\ \A k \in 1..Len(c.smoothed_ratios) :
                      TwiceOffCentre(c, k) \in {-1, 0}

\* C6 as stated: each sample goes through COUNTS_LOADED, RATIOS_COMPUTED,
\* INSERT_SIZE_KNOWN, SMOOTHED, THRESHOLD_SET, SCANNED, EXTENDED, PERSISTED
\* in exactly this order, one stage at a time.
C6_ListedStageOrder == [][StepsFollow(ListedStages)]_vars

\* C6 as amended: each sample goes through COUNTS_LOADED, INSERT_SIZE_KNOWN,
\* RATIOS_COMPUTED, SMOOTHED, THRESHOLD_SET, SCANNED, EXTENDED, PERSISTED in
\* exactly this order (the insert size is estimated before the ratios are
\* computed): a stage is entered only from the one before it in this list,
\* none is skipped and none is entered again.
C6_CodeStageOrder == [][StepsFollow(CodeStages)]_vars

\* C6 witness: a sample has been taken through all stages and saved.
C6_Witness ==
    /\ batch.pc = "returned"
    /\ \E n \in DOMAIN batch.checkers :
          /\ batch.checkers[n].stage = "PERSISTED"
          /\ Len(batch.checkers[n].suspect_regions["rearrangements"]) > 0
          /\ Len(batch.checkers[n].suspect_regions["rearrangements_extended"]) > 0

-----------------------------------------------------------------------------
(* The cache files of one alignment file, used by several processes that   *)
(* each run getCoverageDepths and getMeanInsertSize on it (load = True,    *)
(* save = True). A step is one file operation: an open, a write, a close   *)
(* or a whole read. tarfile.open(fileout, "w:gz") and open(filein, 'w')    *)
(* create the file or truncate the one that is there, at the cache's own   *)
(* path; what is written reaches it member by member until the close.      *)

MaxProcs == 2
Procs == 1..MaxProcs

DepthMembers == <<"depth_total", "depth_proper">>

NoDepthsOnDisk == [exists |-> FALSE, members |-> <<>>, writers |-> {}, torn |-> FALSE]
WholeDepthsOnDisk ==
    [exists |-> TRUE, members |-> DepthMembers, writers |-> {}, torn |-> FALSE]

NoInsertSizeOnDisk == [exists |-> FALSE, text |-> ""]
WholeInsertSizeOnDisk == [exists |-> TRUE, text |-> "float"]

\* What a process that opens and reads the depths file finds in it.
DepthsContent(file) ==
    IF ~file.exists THEN "no file"
    ELSE IF file.writers = {} /\ ~file.torn /\ file.members = DepthMembers
    THEN "complete"
    ELSE "partial"

\* What a process that opens and reads the insert-size file finds in it.
InsertSizeContent(file) ==
    IF ~file.exists THEN "no file"
    ELSE IF file.text = "float" THEN "complete"
    ELSE "partial"

\* What the load block does with an archive cut short: the read fails with
\* an IOError (caught: the depths are counted), it fails with another
\* exception (not caught), or the members present are set and the loop ends.
PartialReadOutcomes == {"count", "raised", "load_insert"}

NewProcess == [pc |-> "load_depths", found_depths |-> FALSE,
               loaded_from_file |-> FALSE,
               seen_depths |-> "unread", seen_insert_size |-> "unread"]

At(i, pc) == cache.pc = "running" /\ cache.proc[i].pc = pc

\* with _tarfile.open(filein, "r:gz") as tar: for member in tar: ...
LoadDepths ==
    \E i \in Procs :
        /\ At(i, "load_depths")
        /\ LET content == DepthsContent(cache.depths)
           IN  \E outcome \in PartialReadOutcomes :
                 /\ content = "no file" => outcome = "count"
                 /\ content = "complete" => outcome = "load_insert"
                 /\ cache' = [cache EXCEPT
                        !.proc[i].seen_depths = content,
                        !.proc[i].found_depths = (outcome = "load_insert"),
                        !.proc[i].pc = outcome]
        /\ UNCHANGED <<objectVars, batch>>

\* if not found_depths: the pileup loop
CountDepths ==
    \E i \in Procs :
        /\ At(i, "count")
        /\ cache' = [cache EXCEPT !.proc[i].pc = "open_depths"]
        /\ UNCHANGED <<objectVars, batch>>

\* with _tarfile.open(fileout, "w:gz") as tar:
OpenDepthsForWriting ==
    \E i \in Procs :
        /\ At(i, "open_depths")
        /\ cache' = [cache EXCEPT
               !.depths = [exists |-> TRUE, members |-> <<>>,
                           writers |-> cache.depths.writers \cup {i},
                           torn |-> cache.depths.writers # {}],
               !.proc[i].pc = "add_depth_total"]
        /\ UNCHANGED <<objectVars, batch>>

\* add_array(depth_total, 'depth_total')
AddDepthTotal ==
    \E i \in Procs :
        /\ At(i, "add_depth_total")
        /\ cache' = [cache EXCEPT
               !.depths.members = Append(cache.depths.members, "depth_total"),
               !.proc[i].pc = "add_depth_proper"]
        /\ UNCHANGED <<objectVars, batch>>

\* add_array(depth_proper, 'depth_proper')
AddDepthProper ==
    \E i \in Procs :
        /\ At(i, "add_depth_proper")
        /\ cache' = [cache EXCEPT
               !.depths.members = Append(cache.depths.members, "depth_proper"),
               !.proc[i].pc = "close_depths"]
        /\ UNCHANGED <<objectVars, batch>>

\* the end of the with block closes the archive
CloseDepths ==
    \E i \in Procs :
        /\ At(i, "close_depths")
        /\ cache' = [cache EXCEPT
               !.depths.writers = cache.depths.writers \ {i},
               !.proc[i].pc = "load_insert"]
        /\ UNCHANGED <<objectVars, batch>>

\* mean_insert_size = float(open(filein).read()); IOError and ValueError
\* (the text is no number) leave loaded_from_file False
LoadInsertSize ==
    \E i \in Procs :
        /\ At(i, "load_insert")
        /\ LET content == InsertSizeContent(cache.insert_size)
           IN  cache' = [cache EXCEPT
                  !.proc[i].seen_insert_size = content,
                  !.proc[i].loaded_from_file = (content = "complete"),
                  !.proc[i].pc = IF content = "complete" THEN "done" ELSE "estimate"]
        /\ UNCHANGED <<objectVars, batch>>

\* if not mean_insert_size: the loop over the reads
EstimateInsertSize ==
    \E i \in Procs :
        /\ At(i, "estimate")
        /\ cache' = [cache EXCEPT !.proc[i].pc = "open_insert"]
        /\ UNCHANGED <<objectVars, batch>>

\* open(filein, 'w')
OpenInsertSizeForWriting ==
    \E i \in Procs :
        /\ At(i, "open_insert")
        /\ cache' = [cache EXCEPT
               !.insert_size = [exists |-> TRUE, text |-> ""],
               !.proc[i].pc = "write_insert"]
        /\ UNCHANGED <<objectVars, batch>>

\* .write(str(mean_insert_size)), and the file object is closed
WriteInsertSize ==
    \E i \in Procs :
        /\ At(i, "write_insert")
        /\ cache' = [cache EXCEPT
               !.insert_size = WholeInsertSizeOnDisk,
               !.proc[i].pc = "done"]
        /\ UNCHANGED <<objectVars, batch>>

InitCache ==
    /\ op = "init"
    /\ raised = "none"
    /\ genome_length = 0
    /\ depth_total = <<>>
    /\ depth_proper = <<>>
    /\ ratios = <<>>
    /\ smoothed_ratios = <<>>
    /\ mean_insert_size = Zero
    /\ suspect_regions = NoRegions
    /\ call = NoCall
    /\ ncalls = 0
    /\ batch = NoBatch
    /\ \E depths \in {NoDepthsOnDisk, WholeDepthsOnDisk},
          insert_size \in {NoInsertSizeOnDisk, WholeInsertSizeOnDisk} :
          cache = [pc |-> "running", depths |-> depths, insert_size |-> insert_size,
                   proc |-> [i \in Procs |-> NewProcess]]

NextCache ==
    \/ LoadDepths
    \/ CountDepths
    \/ OpenDepthsForWriting
    \/ AddDepthTotal
    \/ AddDepthProper
    \/ CloseDepths
    \/ LoadInsertSize
    \/ EstimateInsertSize
    \/ OpenInsertSizeForWriting
    \/ WriteInsertSize

SpecCache == InitCache /\ [][NextCache]_vars

\* C14: a cache file (coverage depths or mean insert size) is replaced
\* atomically: at every point while one process is saving it, a load of the
\* same file by another process observes no file, the complete previous
\* content or the complete new content, never a partially written file.
C14_LoadsSeeWholeFiles ==
    cache.pc = "running" =>
        \A i \in Procs :
            /\ cache.proc[i].seen_depths # "partial"
            /\ cache.proc[i].seen_insert_size # "partial"

-----------------------------------------------------------------------------
(* getCoverageDepths and getMeanInsertSize called on one Checker with every *)
(* combination of their parameters. The alignment is a small fixed one:    *)
(* the reads piled up at each position and the reads fetch() yields.       *)

ParamGenomeLength == 4                       \* reads.header['SQ'][0]['LN']
ParamCalls == 3                              \* calls made on the Checker
ParamResolutions == {1, 2}
ParamQualities == {5, 30}                    \* checkStructure's and the methods' default
ParamUpperLimits == {50, 10000}

AlignedRead(mapping_quality, is_proper_pair, is_read1, template_length) ==
    [mapping_quality |-> mapping_quality, is_proper_pair |-> is_proper_pair,
     is_read1 |-> is_read1, template_length |-> template_length,
     is_qcfail |-> FALSE, is_duplicate |-> FALSE, is_secondary |-> FALSE]

\* x.pileups at 0-based position x: a well mapped proper pair everywhere, a
\* poorly mapped proper read and a well mapped non-proper read at even x.
Pileups(x) ==
    IF x % 2 = 0
    THEN << AlignedRead(40, TRUE, TRUE, 20), AlignedRead(10, TRUE, TRUE, 40),
            AlignedRead(40, FALSE, TRUE, 0) >>
    ELSE << AlignedRead(40, TRUE, TRUE, 100) >>

\* reads.fetch(references[0])
FetchedReads ==
    << AlignedRead(40, TRUE, TRUE, 20), AlignedRead(40, TRUE, FALSE, -20),
       AlignedRead(10, TRUE, TRUE, 40), AlignedRead(40, TRUE, TRUE, -24),
       AlignedRead(40, FALSE, TRUE, 0), AlignedRead(40, TRUE, TRUE, 100),
       AlignedRead(40, TRUE, TRUE, 12000) >>

\* The reads of a pileup column that are counted, all or the proper pairs.
CountedReads(x, min_mapping_quality, proper_only) ==
    LET Counted(r) == /\ ~r.is_qcfail
                      /\ ~r.is_duplicate
                      /\ ~r.is_secondary
                      /\ r.mapping_quality >= min_mapping_quality
                      /\ (proper_only => r.is_proper_pair)
    IN  Len(Filter(Pileups(x), Counted))

\* depth_total (proper_only FALSE) and depth_proper (TRUE) as the pileup
\* loop fills them: int(LN / resolution) + 1 zeros, then the count of
\* column x at index x / resolution for every x with x % resolution == 0.
CountedDepths(resolution, min_mapping_quality, proper_only) ==
    [k \in 1..((ParamGenomeLength \div resolution) + 1) |->
        IF (k - 1) * resolution < ParamGenomeLength
        THEN CountedReads((k - 1) * resolution, min_mapping_quality, proper_only)
        ELSE 0]

Abs(n) == IF n < 0 THEN 0 - n ELSE n

\* isizes: abs(template_length) of the reads that are proper, first of
\* pair, no duplicate, no QC failure, mapped well enough, below upper_limit.
ISizes(upper_limit, min_mapping_quality) ==
    LET Used(r) == /\ r.is_proper_pair
                   /\ r.is_read1
                   /\ ~r.is_duplicate
                   /\ ~r.is_qcfail
                   /\ r.mapping_quality >= min_mapping_quality
                   /\ Abs(r.template_length) < upper_limit
        used == Filter(FetchedReads, Used)
    IN  [n \in 1..Len(used) |-> Abs(used[n].template_length)]

\* sum(isizes) / float(len(isizes))
MeanOfISizes(upper_limit, min_mapping_quality) ==
    <<SumInts(ISizes(upper_limit, min_mapping_quality)),
      Len(ISizes(upper_limit, min_mapping_quality))>>

\* Every call so far was made with load = True and save = True.
CachingSoFar(load, save) ==
    /\ load
    /\ save
    /\ (call.name # "none" => call.caching)

\* getCoverageDepths(resolution, min_mapping_quality, load, save); `writable`
\* tells whether the archive can be written (else IOError, which is caught).
GetCoverageDepths(resolution, min_mapping_quality, load, save, writable) ==
    LET cached == cache.depths
        total == CountedDepths(resolution, min_mapping_quality, FALSE)
        proper == CountedDepths(resolution, min_mapping_quality, TRUE)
    IN  /\ op' = "getCoverageDepths"
        /\ ncalls' = ncalls + 1
        /\ call' = [name |-> "getCoverageDepths", resolution |-> resolution,
                    min_mapping_quality |-> min_mapping_quality,
                    upper_limit |-> 0, load |-> load, save |-> save,
                    found_float |-> FALSE,
                    caching |-> CachingSoFar(load, save)]
        /\ IF load /\ cached # NoFile /\ cached[1].format = "garbage"
           THEN \* tarfile.ReadError is not caught
                /\ raised' = "ReadError"
                /\ UNCHANGED <<depth_total, depth_proper, cache>>
           ELSE IF load /\ cached # NoFile
           THEN \* found_depths: setattr(self, member.name, contents)
                /\ raised' = "none"
                /\ depth_total' = cached[1].depth_total
                /\ depth_proper' = cached[1].depth_proper
                /\ UNCHANGED cache
           ELSE /\ raised' = "none"
                /\ depth_total' = total
                /\ depth_proper' = proper
                /\ cache' = IF save /\ writable
                            THEN [cache EXCEPT !.depths = << DepthsFile(total, proper) >>]
                            ELSE cache

getCoverageDepths ==
    /\ ncalls < ParamCalls
    /\ \E resolution \in ParamResolutions, min_mapping_quality \in ParamQualities,
          load \in BOOLEAN, save \in BOOLEAN, writable \in BOOLEAN :
          GetCoverageDepths(resolution, min_mapping_quality, load, save, writable)
    /\ UNCHANGED <<genome_length, ratios, smoothed_ratios, mean_insert_size,
                   suspect_regions, batch>>

\* getMeanInsertSize(upper_limit, min_mapping_quality, load, save). The
\* names mean_insert_size and loaded_from_file are bound only in the
\* "if load:" block, so with load = False the test "if not mean_insert_size"
\* raises UnboundLocalError.
GetMeanInsertSize(upper_limit, min_mapping_quality, load, save, writable) ==
    LET cached == cache.insert_size
        loaded_from_file == cached # NoFile /\ cached[1].text = "float"
        keeps_loaded == loaded_from_file /\ ~REq(cached[1].value, Zero)
        mean == IF keeps_loaded THEN cached[1].value
                ELSE MeanOfISizes(upper_limit, min_mapping_quality)
    IN  /\ op' = "getMeanInsertSize"
        /\ ncalls' = ncalls + 1
        /\ call' = [name |-> "getMeanInsertSize", resolution |-> 0,
                    min_mapping_quality |-> min_mapping_quality,
                    upper_limit |-> upper_limit, load |-> load, save |-> save,
                    found_float |-> loaded_from_file,
                    caching |-> CachingSoFar(load, save)]
        /\ IF ~load
           THEN /\ raised' = "UnboundLocalError"
                /\ UNCHANGED <<mean_insert_size, cache>>
           ELSE IF ~keeps_loaded /\ ISizes(upper_limit, min_mapping_quality) = <<>>
           THEN /\ raised' = "ZeroDivisionError"
                /\ UNCHANGED <<mean_insert_size, cache>>
           ELSE /\ raised' = "none"
                /\ mean_insert_size' = mean
                /\ cache' = IF save /\ ~loaded_from_file /\ writable
                            THEN [cache EXCEPT !.insert_size = << InsertSizeFile(mean) >>]
                            ELSE cache

getMeanInsertSize ==
    /\ ncalls < ParamCalls
    /\ \E upper_limit \in ParamUpperLimits, min_mapping_quality \in ParamQualities,
          load \in BOOLEAN, save \in BOOLEAN, writable \in BOOLEAN :
          GetMeanInsertSize(upper_limit, min_mapping_quality, load, save, writable)
    /\ UNCHANGED <<genome_length, depth_total, depth_proper, ratios,
                   smoothed_ratios, suspect_regions, batch>>

\* A new Checker; at the cache's paths there is no depths archive, and no
\* insert size file or one that float() cannot parse.
InitParams ==
    /\ op = "init"
    /\ raised = "none"
    /\ genome_length = ParamGenomeLength
    /\ depth_total = <<>>
    /\ depth_proper = <<>>
    /\ ratios = <<>>
    /\ smoothed_ratios = <<>>
    /\ mean_insert_size = Zero
    /\ suspect_regions = NoRegions
    /\ call = NoCall
    /\ ncalls = 0
    /\ batch = NoBatch
    /\ \E insert_size \in {NoFile, << GarbageInsertSizeFile >>} :
          cache = [pc |-> "params", depths |-> NoFile, insert_size |-> insert_size]

NextParams ==
    \/ getCoverageDepths
    \/ getMeanInsertSize

SpecParams == InitParams /\ [][NextParams]_vars

\* C26: after any sequence of getCoverageDepths and getMeanInsertSize calls
\* with caching enabled on the same alignment, the depths and the mean
\* insert size held by the sample equal what a fresh computation with the
\* current call's parameters (resolution, min_mapping_quality, upper_limit)
\* would produce: a cache entry written under other parameter values is
\* never returned for the current call.
C26_CacheMatchesCurrentParameters ==
    (call.name # "none" /\ call.caching /\ raised = "none") =>
        /\ op = "getCoverageDepths" =>
              /\ depth_total = CountedDepths(call.resolution,
                                             call.min_mapping_quality, FALSE)
              /\ depth_proper = CountedDepths(call.resolution,
                                              call.min_mapping_quality, TRUE)
        /\ op = "getMeanInsertSize" =>
              REq(mean_insert_size,
                  MeanOfISizes(call.upper_limit, call.min_mapping_quality))

\* The last call was getMeanInsertSize and found no usable cached value:
\* load = False, or no file, or a file that does not parse as a number.
NoUsableCachedValue ==
    /\ op = "getMeanInsertSize"
    /\ \/ ~call.load
       \/ ~call.found_float

\* C29: getMeanInsertSize called with load=False ignores any cached value,
\* computes the mean insert size from the alignment and sets
\* mean_insert_size; with load=True and a cache file that is missing or
\* does not parse as a number it does the same.
C29_LoadFalseComputesFromAlignment ==
    (NoUsableCachedValue /\ ISizes(call.upper_limit, call.min_mapping_quality) # <<>>) =>
        /\ raised = "none"
        /\ REq(mean_insert_size,
               MeanOfISizes(call.upper_limit, call.min_mapping_quality))

-----------------------------------------------------------------------------
(* scan_threshold given a sparse dict {position: value}.                   *)

MaxKey == 4                                  \* largest position of a dict
MaxSparseOffset == 1
MaxSparseBuffer == 1

\* The dicts: one value at each of some positions 0..MaxKey, at least one.
SparseValues == UNION {[keys -> ScanValues] : keys \in (SUBSET (0..MaxKey)) \ {{}}}

\* use_values: values[pos1], or 0 on KeyError, for pos1 in
\* range(min(values), max(values), resolution)
DenseUpToMax(values, resolution) ==
    LET lo == SetMin(DOMAIN values)
        hi == SetMax(DOMAIN values)
    IN  [k \in 1..RangeCount(hi - lo, resolution, 1) |->
            IF lo + (k - 1) * resolution \in DOMAIN values
            THEN values[lo + (k - 1) * resolution]
            ELSE Zero]

\* zip(range(offset, len(values) * resolution + offset, resolution), use_values)
\* stops at the shorter of the two; len(values) is the number of keys.
ZippedValues(values, resolution) ==
    LET use_values == DenseUpToMax(values, resolution)
    IN  SubSeq(use_values, 1, Min(Cardinality(DOMAIN values), Len(use_values)))

\* The regions scan_threshold stores for a dict.
SparseRegions(values, threshold, offset, test, resolution, buffer_distance, glen) ==
    BufferFilter(ScanPairs(ScanBoundaries(ZippedValues(values, resolution),
                                          threshold, test, offset, resolution, glen)),
                 Cardinality(DOMAIN values), offset, resolution, buffer_distance)

\* The dense list of a dict: every sample from the smallest key up to the
\* largest key, missing positions counted as 0.
DenseList(values, resolution) ==
    LET lo == SetMin(DOMAIN values)
        hi == SetMax(DOMAIN values)
    IN  [k \in 1..(((hi - lo) \div resolution) + 1) |->
            IF lo + (k - 1) * resolution \in DOMAIN values
            THEN values[lo + (k - 1) * resolution]
            ELSE Zero]

scan_sparse ==
    /\ op = "init"
    /\ \E values \in SparseValues, threshold \in Thresholds,
          offset \in 0..MaxSparseOffset, test \in Tests, name \in FilterNames,
          resolution \in 1..MaxScanRes, buffer_distance \in 0..MaxSparseBuffer :
          /\ call' = [name |-> "scan_threshold", values |-> values,
                      threshold |-> threshold, offset |-> offset, test |-> test,
                      filter |-> name, resolution |-> resolution,
                      buffer_distance |-> buffer_distance]
          /\ suspect_regions' =
                StoreRegions(suspect_regions, name,
                    SparseRegions(values, threshold, offset, test, resolution,
                                  buffer_distance, genome_length))
    /\ raised' = "none"
    /\ op' = "scan_threshold"
    /\ ncalls' = ncalls + 1
    /\ UNCHANGED <<genome_length, depth_total, depth_proper, ratios,
                   smoothed_ratios, mean_insert_size, batch, cache>>

NextSparse == scan_sparse

SpecSparse == InitScan /\ [][NextSparse]_vars

\* C28: when scan_threshold is given a sparse position-to-value mapping, it
\* scans every densified sample from the smallest key up to the largest key
\* (missing positions counted as 0) and returns the same regions as a call
\* on that dense list with the same threshold, test, offset, resolution and
\* buffer distance.
C28_SparseScansAsDense ==
    op = "scan_threshold" =>
        /\ ZippedValues(call.values, call.resolution)
              = DenseList(call.values, call.resolution)
        /\ suspect_regions[call.filter]
              = ScanRegions(DenseList(call.values, call.resolution), call.threshold,
                            call.offset, call.test, call.resolution,
                            call.buffer_distance, genome_length)

-----------------------------------------------------------------------------
(* moving_stats, the module's function, called on the series and with the  *)
(* arguments getSmoothedRatios was just called with.                       *)

AboveZero(t) == RLt(Zero, t)

\* The values of one window moving_stats takes the mean of:
\*   these = [t for t in these if t > 0]
\*   if len(these) <= window / 2.0 / resolution:
\*       these += [0] * int(window / 2.0 / resolution - len(these))
MovingKept(values, i, window, resolution) ==
    LET these == Filter(WindowSlice(values, i, window, resolution), AboveZero)
    IN  IF 2 * resolution * Len(these) <= window
        THEN these \o [k \in 1..((window \div (2 * resolution)) - Len(these)) |-> Zero]
        ELSE these

\* Some window's sum(these) / float(len(these)) divides by zero.
MovingRaises(values, window, step, resolution) ==
    \E k \in 1..SmoothCount(values, window, step, resolution) :
        MovingKept(values, WindowStart(k, step, resolution), window, resolution) = <<>>

\* mean: one these_mean per item of
\* range(0, len(values) * resolution - window, resolution)[::step]
MovingStats(values, window, step, resolution) ==
    [k \in 1..SmoothCount(values, window, step, resolution) |->
        MeanOf(MovingKept(values, WindowStart(k, step, resolution), window, resolution),
               window, resolution)]

moving_stats ==
    /\ op = "getSmoothedRatios"
    /\ IF MovingRaises(ratios, call.window, call.step, call.resolution)
       THEN /\ raised' = "ZeroDivisionError"
            /\ call' = [name |-> "moving_stats", window |-> call.window,
                        step |-> call.step, resolution |-> call.resolution,
                        smoothed_raised |-> raised, mean |-> <<>>]
       ELSE /\ raised' = "none"
            /\ call' = [name |-> "moving_stats", window |-> call.window,
                        step |-> call.step, resolution |-> call.resolution,
                        smoothed_raised |-> raised,
                        mean |-> MovingStats(ratios, call.window, call.step,
                                             call.resolution)]
    /\ op' = "moving_stats"
    /\ ncalls' = ncalls + 1
    /\ UNCHANGED <<genome_length, depth_total, depth_proper, ratios,
                   smoothed_ratios, mean_insert_size, suspect_regions, batch, cache>>

NextMoving ==
    \/ getSmoothedRatios
    \/ moving_stats

SpecMoving == InitSmooth /\ [][NextMoving]_vars

\* C30: the standalone windowed mean moving_stats and the ratio smoother
\* getSmoothedRatios are the same primitive: for every non-negative-or-
\* sentinel series, window, step and resolution they produce the same number
\* of output samples and the same value for each sample.
C30_MovingStatsIsTheSmoother ==
    op = "moving_stats" =>
        /\ raised = call.smoothed_raised
        /\ raised = "none" =>
              /\ Len(call.mean) = Len(smoothed_ratios)
              /\ \A k \in 1..Len(call.mean) : REq(call.mean[k], smoothed_ratios[k])

=============================================================================
